---- MODULE Spec2Model ----
(***************************************************************************)
(* Model of the goal-pursuit engine of arkon-arise (src/main_clone.py):    *)
(* engine() tries the browsers in order, run_dynamic_flow() runs one       *)
(* browser session (attempt loop, guard, activation ladder, evaluation,    *)
(* poll loop, exit), and the event store of src/arkon_memory.py keeps the  *)
(* learned locators.  The page, the proposer and the click outcomes are    *)
(* the environment and are chosen nondeterministically from small sets.    *)
(***************************************************************************)
EXTENDS Integers, Sequences, FiniteSets, TLC

(***************************************************************************)
(* Bounds of the model and constants of the program                        *)
(***************************************************************************)
\* number of events that earlier runs left in the event store
MaxPrior == 1

\* for attempt in range(3)
AttemptCap == 3
\* for _ in range(20)
PollCap == 20
\* if no_count >= 2
EscalationThreshold == 2
\* float(styles.get("o","1")) < 0.2, in hundredths
OpacityThreshold == 20

\* for bt in ["chromium", "firefox"]
Browsers == <<"chromium", "firefox">>

TargetUrl == "https://the-internet.herokuapp.com/dynamic_loading/2."
\* another page of the same site
OtherUrl == "https://the-internet.herokuapp.com/dynamic_loading/1"
AttemptGoal == "Locate the start trigger and reveal 'Hello World!'"
PollGoal == "Reveal Hello World"

(***************************************************************************)
(* Strings that are taken apart by the program are sequences of tokens;    *)
(* " " is white space and "||" the delimiter of a packed hint.             *)
(***************************************************************************)
Upper(t) ==
    CASE t = "js_click" -> "JS_CLICK"
      [] t = "force_click" -> "FORCE_CLICK"
      [] t = "button" -> "BUTTON"
      [] t = "text=start" -> "TEXT=START"
      [] OTHER -> t

UpperSeq(s) == [i \in 1..Len(s) |-> Upper(s[i])]

RECURSIVE LStrip(_)
LStrip(s) == IF s # <<>> /\ Head(s) = " " THEN LStrip(Tail(s)) ELSE s

RECURSIVE RStrip(_)
RStrip(s) ==
    IF s # <<>> /\ s[Len(s)] = " " THEN RStrip(SubSeq(s, 1, Len(s) - 1)) ELSE s

\* str.strip()
Strip(s) == RStrip(LStrip(s))

\* index of the first "||" in s, 0 when there is none
FirstBar(s) ==
    IF \E i \in 1..Len(s) : s[i] = "||"
    THEN CHOOSE i \in 1..Len(s) : s[i] = "||" /\ \A j \in 1..(i - 1) : s[j] # "||"
    ELSE 0

\* s.upper().endswith(" " + word)
EndsWithWord(s, word) ==
    /\ Len(s) >= 2
    /\ Upper(s[Len(s)]) = word
    /\ s[Len(s) - 1] = " "

_parse_hint(selector_or_hint) ==
    LET s == Strip(selector_or_hint)
        b == FirstBar(s)
    IN  IF b > 0
        THEN [selector |-> Strip(SubSeq(s, 1, b - 1)),
              hint |-> UpperSeq(Strip(SubSeq(s, b + 1, Len(s))))]
        ELSE IF EndsWithWord(s, "JS_CLICK")
        THEN [selector |-> Strip(SubSeq(s, 1, Len(s) - 2)), hint |-> <<"JS_CLICK">>]
        ELSE IF EndsWithWord(s, "FORCE_CLICK")
        THEN [selector |-> Strip(SubSeq(s, 1, Len(s) - 2)), hint |-> <<"FORCE_CLICK">>]
        ELSE [selector |-> s, hint |-> <<>>]

(***************************************************************************)
(* Python values returned by the evaluator: a bare bool, None, or the      *)
(* (bool, message) tuple.                                                   *)
(***************************************************************************)
PyNone == [tag |-> "none", ok |-> FALSE]
PyBool(b) == [tag |-> "bool", ok |-> b]
PyTuple(b) == [tag |-> "tuple", ok |-> b]

\* x is True
IsTrue(x) == x.tag = "bool" /\ x.ok
\* x is False
IsFalse(x) == x.tag = "bool" /\ ~x.ok

\* arkon_healer.evaluate_success: equal is whether action_result == expected_outcome
evaluate_success(equal) == PyTuple(equal)

\* main_clone.self_evaluate returns what evaluate_success returned
self_evaluate(equal) == evaluate_success(equal)

\* the branch self_evaluate logs for a result
Classify(x) ==
    IF IsTrue(x) THEN "Success" ELSE IF IsFalse(x) THEN "Failure" ELSE "Inconclusive"

\* what the evaluator judged: its boolean, where it gave one
Verdict(x) ==
    IF x.tag = "none" THEN "Inconclusive" ELSE IF x.ok THEN "Success" ELSE "Failure"

(***************************************************************************)
(* The event store (sqlite table events of arkon_memory), in insertion     *)
(* order, which is the order of ts.                                        *)
(***************************************************************************)
Event(url, goal, selector, hint, action, result, notes) ==
    [url |-> url, goal |-> goal, selector |-> selector, hint |-> hint,
     action |-> action, result |-> result, notes |-> notes]

\* record_event appends one row
record_event(evs, url, goal, selector, hint, action, result, notes) ==
    Append(evs, Event(url, goal, selector, hint, action, result, notes))

record_failure(evs, url, goal, selector, hint, notes) ==
    record_event(evs, url, goal, selector, hint, "click", "failure", notes)

record_success(evs, url, goal, selector, hint, notes) ==
    record_event(evs, url, goal, selector, hint, "click", "success", notes)

record_hostile(evs, url, notes) ==
    record_event(evs, url, "hostile-site", <<>>, <<>>, "defense", "hostile", notes)

NotFound == [found |-> FALSE, selector |-> <<>>, hint |-> <<>>]

\* consult_selector with ORDER BY ts ASC: the oldest success in place of the newest
consult_selector_Oldest(evs, url, goal) ==
    LET hits == {i \in 1..Len(evs) :
                    evs[i].url = url /\ evs[i].goal = goal /\ evs[i].result = "success"}
    IN  IF hits = {} THEN NotFound
        ELSE LET i == CHOOSE k \in hits : \A j \in hits : k <= j
                 sel == Strip(evs[i].selector)
             IN  IF sel # <<>>
                 THEN [found |-> TRUE, selector |-> sel, hint |-> Strip(evs[i].hint)]
                 ELSE NotFound

\* SELECT selector,hint ... WHERE url=? AND goal=? AND result='success'
\* ORDER BY ts DESC LIMIT 1
consult_selector(evs, url, goal) ==
    LET hits == {i \in 1..Len(evs) :
                    evs[i].url = url /\ evs[i].goal = goal /\ evs[i].result = "success"}
    IN  IF hits = {} THEN NotFound
        ELSE LET i == CHOOSE k \in hits : \A j \in hits : j <= k
                 sel == Strip(evs[i].selector)
             IN  IF sel # <<>>
                 THEN [found |-> TRUE, selector |-> sel, hint |-> Strip(evs[i].hint)]
                 ELSE NotFound

\* whether a hostile event is stored for the url
HostileRecorded(evs, url) ==
    \E i \in 1..Len(evs) : evs[i].url = url /\ evs[i].result = "hostile"

(***************************************************************************)
(* Locator resolution of one attempt                                       *)
(***************************************************************************)
\* what _ddgs_brain can return: a result text or one of its fixed answers,
\* never the empty string
ProposerOutputs ==
    { <<"button">>, <<"text=start", " ", "||", " ", "js_click">> }

\* _ddgs_brain when the search finds nothing
BrainEmpty == <<"No results.">>

\* _ddgs_brain when each of its tries raised (the search is unavailable)
BrainDown == <<"No answer available.">>

\* every text propose_selector can return
BrainOutputs == ProposerOutputs \cup {BrainEmpty, BrainDown}

\* what a call of the search returns when it does not raise
SearchTexts == ProposerOutputs \cup {BrainEmpty}

\* async def _ddgs_brain(prompt, attempts: int = 5)
BrainAttempts == 5

\* number of calls of the search in a row that can raise
MaxFails == 6

\* _ddgs_brain going on until a call of the search returns
_ddgs_brain_Unbounded(fails, text) == [text |-> text, tries |-> fails + 1]

\* _ddgs_brain when the first fails calls of the search raise and the next one
\* returns text: for i in range(attempts) returns at the first call that does
\* not raise, and "No answer available." follows the for
_ddgs_brain(fails, text) ==
    IF fails < BrainAttempts THEN [text |-> text, tries |-> fails + 1]
    ELSE [text |-> BrainDown, tries |-> BrainAttempts]

\* a goal that mentions neither "start" nor "hello world" (run_diagnostic_test)
SubmitGoal == "Find the 'submit' button"

\* the goal texts of the program
Goals == {AttemptGoal, PollGoal, SubmitGoal}

\* w in g.lower()
Mentions(g, w) ==
    CASE g = AttemptGoal -> w \in {"start", "hello world"}
      [] g = PollGoal -> w \in {"hello world"}
      [] OTHER -> FALSE

\* sel_raw = f"{mem[0]} || {mem[1]}" if mem[1] else mem[0]
PackMemory(mem) ==
    IF mem.hint # <<>> THEN mem.selector \o <<" ", "||", " ">> \o mem.hint
    ELSE mem.selector

\* the local rule-based selector: "start" is in the goal text
SovereignFallback == <<"text=Start">>

\* lines 462-467 for a goal g: the local rule that matches it, or nothing
SovereignFallbackFor(g) ==
    IF Mentions(g, "start") THEN SovereignFallback
    ELSE IF Mentions(g, "hello world") THEN <<"text=Hello World!">>
    ELSE <<>>

\* lines 454-467 for a goal g: memory, else proposer or autonomous fix, else the
\* local rule; <<>> when all of them gave nothing
ResolveRawFor(mem, proposal, fix, g) ==
    IF mem.found THEN PackMemory(mem)
    ELSE IF proposal # <<>> THEN proposal
    ELSE IF fix # <<>> THEN fix
    ELSE SovereignFallbackFor(g)

\* the sources that lines 454-467 ask, in the order in which they are asked
AskedFor(mem, proposal, fix) ==
    IF mem.found THEN <<"consult_selector">>
    ELSE IF proposal # <<>> THEN <<"consult_selector", "propose_selector">>
    ELSE IF fix # <<>>
    THEN <<"consult_selector", "propose_selector", "get_autonomous_fix">>
    ELSE <<"consult_selector", "propose_selector", "get_autonomous_fix", "fallback">>

\* sel_raw of the attempt: memory, else proposer or autonomous fix, else fallback
ResolveRaw(mem, proposal, fix) == ResolveRawFor(mem, proposal, fix, AttemptGoal)

\* if not sel_raw: continue
Abandons(sel_raw) == sel_raw = <<>>

(***************************************************************************)
(* The fingerprint of a session, lines 377-391 of run_dynamic_flow         *)
(***************************************************************************)
vendor_options == {"NVIDIA Corporation", "Intel Inc.", "Apple Inc."}
renderer_options == {"NVIDIA GeForce RTX 3080", "Intel Iris OpenGL Engine", "Apple M2"}

\* hwc_options with a value that is not among the candidates
hwc_options_Wider == {2, 4, 8, 16}

hwc_options == {4, 8, 16}

\* _fingerprint_script: what the script makes the page report
_fingerprint_script(vendor, renderer, hwc) ==
    [hardwareConcurrency |-> hwc, vendor |-> vendor, renderer |-> renderer]

(***************************************************************************)
(* The guard                                                               *)
(***************************************************************************)
NoElement == [kind |-> "null", v |-> "", d |-> "", o |-> 100]
StyleError == [kind |-> "error", v |-> "", d |-> "", o |-> 100]
Style(v, d, o) == [kind |-> "style", v |-> v, d |-> d, o |-> o]

\* what the computed-style lookup of an attempt can give (opacity in hundredths)
Styles ==
    { NoElement, StyleError,
      Style("visible", "block", 100), Style("visible", "block", 20),
      Style("visible", "block", 5), Style("hidden", "block", 100),
      Style("visible", "none", 100) }

\* IsHoneypot with the opacity test on full transparency only
IsHoneypot_ZeroOnly(st) ==
    /\ st.kind = "style"
    /\ (st.v = "hidden" \/ st.d = "none" \/ st.o < 1)

\* styles and (v == "hidden" or d == "none" or float(o) < 0.2)
IsHoneypot(st) ==
    /\ st.kind = "style"
    /\ (st.v = "hidden" \/ st.d = "none" \/ st.o < OpacityThreshold)

\* none of "login-", "verify", "secure-update", "confirm-account" is in target_url
UrlFlagged == FALSE

\* _phishing_guard: TRUE when safe
_phishing_guard(urlFlagged, keylogger) ==
    LET flags == (IF urlFlagged THEN 1 ELSE 0) + (IF keylogger THEN 1 ELSE 0)
    IN  flags = 0

(***************************************************************************)
(* The activation ladder: works is the set of strategies that raise no     *)
(* error on the page; the result is the strategies called, in order, and   *)
(* whether one of them succeeded.                                          *)
(***************************************************************************)
Strategies == {"direct", "dispatch", "script", "force"}

try_click(works) ==
    [called |-> <<"direct">>, clicked |-> "direct" \in works]

\* mutate_click going on to the next strategy after one that raised no error
mutate_click_GoesOn(works) ==
    [called |-> <<"dispatch", "script", "force">>,
     clicked |-> works \cap {"dispatch", "script", "force"} # {}]

mutate_click(works) ==
    IF "dispatch" \in works THEN [called |-> <<"dispatch">>, clicked |-> TRUE]
    ELSE IF "script" \in works
    THEN [called |-> <<"dispatch", "script">>, clicked |-> TRUE]
    ELSE [called |-> <<"dispatch", "script", "force">>, clicked |-> "force" \in works]

\* lines 495-503 of run_dynamic_flow
Activate(hint, works) ==
    IF hint = <<"JS_CLICK">> \/ hint = <<"FORCE_CLICK">> THEN mutate_click(works)
    ELSE LET t == try_click(works)
             m == mutate_click(works)
         IN  IF t.clicked THEN t
             ELSE [called |-> t.called \o m.called, clicked |-> m.clicked]

(***************************************************************************)
(* Decisions of run_dynamic_flow and engine                                *)
(***************************************************************************)
\* CountsAsFailure as "if eval_res is not True"
CountsAsFailure_NotTrue(res) == ~IsTrue(res)

\* if eval_res is False: no_count += 1
CountsAsFailure(res) == IsFalse(res)

\* if no_count >= 2: the switch of browser
Escalates(count) == count >= EscalationThreshold

\* RecordsSuccess as "if eval_res is True"
RecordsSuccess_OnlyTrue(isClicked, res) == isClicked /\ IsTrue(res)

\* if clicked: if eval_res is not False: record_success(...)
RecordsSuccess(isClicked, res) == isClicked /\ ~IsFalse(res)

\* if clicked: ... else: record_failure(...)
RecordsFailure(isClicked, res) == isClicked /\ IsFalse(res)

\* if clicked: ... break
BreaksLoop(isClicked, res) == isClicked

\* if eval_res is True: done = True ... break
PollDone(res) == IsTrue(res)

\* return clicked
ReturnValue(isClicked, isDone) == isClicked

\* if await run_dynamic_flow(bt): break
EngineStops(returned) == returned

\* where the attempt loop goes after a honeypot: continue
AfterHoneypot == "loop"

\* AfterPhishing as continue
AfterPhishing_Continue == "loop"

\* where the attempt loop goes after phishing indicators: break
AfterPhishing == "poll"

\* LoopNext with the range one longer
LoopNext_OffByOne(started) == IF started <= AttemptCap THEN "loop" ELSE "poll"

\* the head of for attempt in range(3): the next iteration, or the poll loop
\* when the range is used up
LoopNext(started) == IF started < AttemptCap THEN "loop" ELSE "poll"

Goto(target, started) == IF target = "loop" THEN LoopNext(started) ELSE target

\* ExitEffects without the reflection
ExitEffects_NoReflect ==
    <<"storage.clear", "clear_cookies", "context.close", "browser.close">>

\* ExitEffects with neither close
ExitEffects_NoClose ==
    <<"storage.clear", "clear_cookies", "self_reflect", "ingest_document">>

\* lines 543-560: what run_dynamic_flow does, in order, before return clicked;
\* the wipe and the reflection swallow their errors
ExitEffects ==
    <<"storage.clear", "clear_cookies", "self_reflect", "ingest_document",
      "context.close", "browser.close">>

\* lines 508-518: what the switch of browser does before it calls backup_vault
EscalationEffects ==
    <<"causal_reasoning", "ingest_document", "record_failure", "send_sentinel_alert">>

\* whether an exit closed the context and the browser of its session
Closed(effects) ==
    /\ \E i \in 1..Len(effects) : effects[i] = "context.close"
    /\ \E i \in 1..Len(effects) : effects[i] = "browser.close"

\* one exit of run_dynamic_flow: by return or by an exception, and what it did first
ExitRecord(how, effects) == [how |-> how, effects |-> effects]

\* what get_autonomous_fix returns when nothing is proposed
AutonomousFix == <<"No action proposed">>

(***************************************************************************)
(* The poll loop, lines 535-542: goalAt is the iteration at which the      *)
(* evaluator finds the page equal to the expected text (0: at none).  The  *)
(* result is the number of evaluations made, done, and whether a success   *)
(* was recorded.                                                           *)
(***************************************************************************)
RECURSIVE PollLoop(_, _)
PollLoop(i, goalAt) ==
    IF i > PollCap THEN [polls |-> PollCap, done |-> FALSE, last |-> self_evaluate(FALSE)]
    ELSE LET res == self_evaluate(i = goalAt)
         IN  IF PollDone(res) THEN [polls |-> i, done |-> TRUE, last |-> res]
             ELSE IF i = PollCap THEN [polls |-> i, done |-> FALSE, last |-> res]
             ELSE PollLoop(i + 1, goalAt)

\* the iterations at which the page can come to show the goal: never, at the
\* first poll, at the last
PollGoalTimes == {0, 1, PollCap}

(***************************************************************************)
(* The event log as _load, _prune_memory and _save see it: the rows of the  *)
(* table events, oldest first, each with its ts.  A note is a sequence: one *)
(* text, or a text followed by the numbers formatted into it.               *)
(***************************************************************************)
\* if len(evs) > 500
PruneThreshold == 500
\* oldest = evs[:100]; keep = evs[100:]
SummarizedCount == 100
\* _adapter().read_events(5000)
LoadLimit == 5000

\* the row that write_event inserts for an event recorded at time ts
Stamped(ts, ev) == [ts |-> ts] @@ ev

\* the events that the program records on the page of the run
LogKinds == {"failA", "failB", "succA"}

LogEvent(kind, ts) ==
    CASE kind = "failA" ->
            Stamped(ts, Event(TargetUrl, AttemptGoal, <<"button">>, <<>>, "click",
                              "failure", <<"Start click inconclusive">>))
      [] kind = "failB" ->
            Stamped(ts, Event(TargetUrl, AttemptGoal, <<"text=start">>, <<"JS_CLICK">>,
                              "click", "failure", <<"Hydra switch trigger">>))
      [] OTHER ->
            Stamped(ts, Event(TargetUrl, AttemptGoal, <<"button">>, <<>>, "click",
                              "success", <<"Start clicked">>))

\* nxt.get("result") == "failure" and nxt has the url, goal and selector of ev
SameRun(ev, nxt) ==
    /\ nxt.result = "failure"
    /\ nxt.url = ev.url
    /\ nxt.goal = ev.goal
    /\ nxt.selector = ev.selector

\* the inner while of _compress_failures: the j it ends with, the first index
\* after i that is past the end or holds an event that does not go on the run of i
RunEnd(evs, i) ==
    CHOOSE j \in (i + 1)..(Len(evs) + 1) :
        /\ j = Len(evs) + 1 \/ ~SameRun(evs[i], evs[j])
        /\ \A k \in (i + 1)..(j - 1) : SameRun(evs[i], evs[k])

\* Collapses as "if same >= 3"
Collapses_AtThree(same) == same >= 3

\* if same > 3
Collapses(same) == same > 3

\* Collapsed with the note counting the followers of the first event only
Collapsed_CountsFollowers(ev, same) ==
    [ev EXCEPT !.action = "click", !.result = "failure",
               !.notes = <<"Repeated-Failure x", same - 1>>]

\* the event appended for a run: ts, url, goal, selector and hint of its first
\* event, notes f"Repeated-Failure x{same}"
Collapsed(ev, same) ==
    [ev EXCEPT !.action = "click", !.result = "failure",
               !.notes = <<"Repeated-Failure x", same>>]

\* one pass of the outer while of _compress_failures, st holding i and out;
\* nothing once the while has ended
CompressStep(evs, st) ==
    IF st.i > Len(evs) THEN st
    ELSE LET ev == evs[st.i]
             j == RunEnd(evs, st.i)
             same == j - st.i
         IN  IF ev.result = "failure" /\ Collapses(same)
             THEN [i |-> j, out |-> Append(st.out, Collapsed(ev, same))]
             ELSE [i |-> st.i + 1, out |-> Append(st.out, ev)]

\* n passes of the while, one after the other
RECURSIVE CompressPasses(_, _, _)
CompressPasses(evs, st, n) ==
    IF st.i > Len(evs) \/ n = 0 THEN st
    ELSE IF n = 1 THEN CompressStep(evs, st)
    ELSE LET half == CompressPasses(evs, st, n \div 2)
         IN  IF half.i > Len(evs) THEN half
             ELSE CompressPasses(evs, half, n - (n \div 2))

\* the while makes at most len(events) passes
_compress_failures(evs) == CompressPasses(evs, [i |-> 1, out |-> <<>>], Len(evs)).out

\* pages of other sites, and the url that arkon_healer records its own work under
ShopUrl == "https://shop.example.com/cart"
BankUrl == "https://bank.example.org/login"
LocalUrl == "local"

\* a goal text given with blanks around it, and the same text without them
PaddedProblem == " restart the worker "
Problem == "restart the worker"

\* (e.get("goal") or "").strip()
StripGoal(g) == IF g = PaddedProblem THEN Problem ELSE g

\* urllib.parse.urlparse(url).netloc
Domain(url) ==
    CASE url = TargetUrl -> "the-internet.herokuapp.com"
      [] url = OtherUrl -> "the-internet.herokuapp.com"
      [] url = ShopUrl -> "shop.example.com"
      [] url = BankUrl -> "bank.example.org"
      [] OTHER -> ""

\* number of entries of ks equal to k
Count(ks, k) == Cardinality({i \in 1..Len(ks) : ks[i] = k})

\* the first index of k in ks
FirstAt(ks, k) ==
    CHOOSE i \in 1..Len(ks) : ks[i] = k /\ \A j \in 1..(i - 1) : ks[j] # k

\* sorted(items, key=count, reverse=True)[:n] of the counts of the non-empty
\* entries of ks: the sort is stable, the items are in the order of first occurrence
Top(ks, n) ==
    LET keys == {ks[i] : i \in 1..Len(ks)} \ {""}
        before(a, b) ==
            \/ Count(ks, a) > Count(ks, b)
            \/ Count(ks, a) = Count(ks, b) /\ FirstAt(ks, a) < FirstAt(ks, b)
        rank(k) == 1 + Cardinality({h \in keys : before(h, k)})
        m == IF Cardinality(keys) < n THEN Cardinality(keys) ELSE n
    IN  [r \in 1..m |-> LET k == CHOOSE x \in keys : rank(x) = r
                        IN  <<k, Count(ks, k)>>]

\* the lines of the note of the summary
SummaryNote(oldest) ==
    <<"Compressed", Len(oldest),
      "Successes", Cardinality({i \in 1..Len(oldest) : oldest[i].result = "success"}),
      "Failures", Cardinality({i \in 1..Len(oldest) : oldest[i].result = "failure"}),
      "Top Goals", Top([i \in 1..Len(oldest) |-> StripGoal(oldest[i].goal)], 3),
      "Domains", Top([i \in 1..Len(oldest) |-> Domain(oldest[i].url)], 2),
      "Retention optimized">>

\* SummaryTime as the ts of the oldest summarized event
SummaryTime_Oldest(oldest, t) == oldest[1].ts

\* "ts": int(time.time() * 1000), t being the time of the call
SummaryTime(oldest, t) == t

\* the dict summary of _prune_memory
Summary(oldest, t) ==
    Stamped(SummaryTime(oldest, t),
            Event("summary", "compressed", <<>>, <<>>, "compress", "summary",
                  SummaryNote(oldest)))

\* Carried keeping the newest of the summarized events
Carried_FromBoundary(evs) == SubSeq(evs, SummarizedCount, Len(evs))

\* keep = evs[100:]
Carried(evs) == SubSeq(evs, SummarizedCount + 1, Len(evs))

\* Oldest as all the events loaded
Oldest_All(evs) == evs

\* oldest = evs[:100]
Oldest(evs) == SubSeq(evs, 1, SummarizedCount)

\* the list that _prune_memory hands to _compress_failures: keep + [summary]
\* past the threshold, evs otherwise
Retained(evs, t) ==
    IF Len(evs) > PruneThreshold
    THEN Append(Carried(evs), Summary(Oldest(evs), t))
    ELSE evs

\* _prune_memory on the events of db, called at time t
_prune_memory(evs, t) == _compress_failures(Retained(evs, t))

\* arkon_memory._load: SELECT ... ORDER BY ts ASC LIMIT 5000
_load(rows) ==
    IF Len(rows) > LoadLimit THEN SubSeq(rows, 1, LoadLimit) ELSE rows

\* no call of _prune_memory yet
NoPrune == [called |-> FALSE, before |-> <<>>, at |-> 0, given |-> <<>>, after |-> <<>>]

(***************************************************************************)
(* The swarm store (arkon_swarm): the list "success" of swarm_intel.json    *)
(***************************************************************************)
\* now - ts < 30 * 86400
RetentionDays == 30
DaySeconds == 86400
Retention == RetentionDays * DaySeconds

\* the (goal, url, selector) of the records published
SwarmKeys ==
    { <<AttemptGoal, TargetUrl, <<"button">>>>,
      <<AttemptGoal, TargetUrl, <<"text=start">>>>,
      <<AttemptGoal, OtherUrl, <<"button">>>>,
      <<PollGoal, TargetUrl, <<"button">>>> }

\* selector_record.get("success_count", 1) of the records published
GivenCounts == {1, 3}

KeyOf(rec) == <<rec.goal, rec.url, rec.selector>>

\* the indices of the records of arr with the key
Matches(arr, key) == {i \in 1..Len(arr) : KeyOf(arr[i]) = key}

\* the success_count stored for the key, 0 when no record has it
CountOf(arr, key) ==
    IF Matches(arr, key) = {} THEN 0
    ELSE arr[CHOOSE i \in Matches(arr, key) : \A j \in Matches(arr, key) : i <= j].success_count

\* Upsert appending the record whether or not the key is stored
Upsert_AlwaysAppends(arr, key, given, t) ==
    Append(arr, [goal |-> key[1], url |-> key[2], selector |-> key[3],
                 success_count |-> given, ts |-> t])

\* Upsert storing the count the record came with in place of the stored count
Upsert_Overwrites(arr, key, given, t) ==
    IF Matches(arr, key) # {}
    THEN LET i == CHOOSE k \in Matches(arr, key) : \A j \in Matches(arr, key) : k <= j
         IN  [arr EXCEPT ![i].success_count = given, ![i].ts = t]
    ELSE Append(arr, [goal |-> key[1], url |-> key[2], selector |-> key[3],
                      success_count |-> given, ts |-> t])

\* lines 66-77 of swarm_publish: raise the count of the first record of the key,
\* or append the record with the count it came with
Upsert(arr, key, given, t) ==
    IF Matches(arr, key) # {}
    THEN LET i == CHOOSE k \in Matches(arr, key) : \A j \in Matches(arr, key) : k <= j
         IN  [arr EXCEPT ![i].success_count = @ + 1, ![i].ts = t]
    ELSE Append(arr, [goal |-> key[1], url |-> key[2], selector |-> key[3],
                      success_count |-> given, ts |-> t])

\* if now - ts < 30 * 86400 and success_count >= 1: keep
Kept(rec, t) == t - rec.ts < Retention /\ rec.success_count >= 1

\* _clean_swarm: big is whether the file is there and larger than 2,000,000 bytes
_clean_swarm(arr, big, t) ==
    IF big THEN SelectSeq(arr, LAMBDA rec : Kept(rec, t)) ELSE arr

\* the list that swarm_publish saves
swarm_publish(arr, key, given, big, t) == _clean_swarm(Upsert(arr, key, given, t), big, t)

NoRecord == [found |-> FALSE]

\* Best as the first record of idx, whatever its success_count
Best_First(arr, idx) == CHOOSE i \in idx : \A j \in idx : i <= j

\* the first record of the highest success_count among those of idx
Best(arr, idx) ==
    CHOOSE i \in idx :
        \A j \in idx :
            \/ arr[j].success_count < arr[i].success_count
            \/ arr[j].success_count = arr[i].success_count /\ i <= j

\* swarm_fetch: the best record of the goal on the url, else on the domain of the
\* url; best_score starts at -1 and a record is taken when sc > best_score
swarm_fetch(arr, g, u) ==
    LET exact == {i \in 1..Len(arr) :
                     /\ arr[i].goal = g /\ arr[i].url = u /\ arr[i].selector # <<>>
                     /\ arr[i].success_count > -1}
        near == {i \in 1..Len(arr) :
                    /\ arr[i].goal = g
                    /\ Domain(arr[i].url) = Domain(u)
                    /\ arr[i].selector # <<>>
                    /\ arr[i].success_count > -1}
    IN  IF exact # {} THEN [found |-> TRUE, rec |-> arr[Best(arr, exact)]]
        ELSE IF near # {} THEN [found |-> TRUE, rec |-> arr[Best(arr, near)]]
        ELSE NoRecord

(***************************************************************************)
(* State                                                                   *)
(***************************************************************************)
VARIABLES
    pc,         \* position of engine / run_dynamic_flow
    bi,         \* index in Browsers of the session of this run, 0 before the first
    open,       \* whether the browser session is open
    attempt,    \* number of iterations of the attempt loop started in this session
    no_count,   \* no_count of run_dynamic_flow
    clicked,    \* clicked of run_dynamic_flow
    done,       \* done of run_dynamic_flow
    polls,      \* number of poll evaluations made in this session
    eval_res,   \* eval_res of run_dynamic_flow
    keylogger,  \* whether the state captured by this attempt holds "data-keylogger"
    selector,   \* selector of this attempt
    hint,       \* hint of this attempt
    events,     \* the event store
    swarm,      \* the swarm store (success records of arkon_swarm)
    cur,        \* history of the attempt in progress
    sess,       \* history of this session
    past,       \* history of this run: the sessions that returned
    exits,      \* every exit of run_dynamic_flow in this run, in order
    goal,       \* goal of the resolution
    db,         \* the event log that _load reads, oldest first
    clock,      \* the time of the event log, in ms
    pruned,     \* the last call of _prune_memory: its input, its time, its result
    now,        \* the time of the swarm store, in s
    peak,       \* the highest success_count seen of each key of the swarm store
    fetched,    \* what the last swarm_fetch returned
    last,       \* the last call made on the swarm store
    job,        \* the _prune_memory_now in progress: its position, what it loaded,
                \* and the number of record_event calls made beside it
    written,    \* every event whose record_event completed, in order
    pub,        \* the swarm_publish of each node: its position, its record, what it
                \* loaded, and the triples of the calls it completed
    sup,        \* the supervisor thread of app.py and the loop it runs
    fp,         \* the fingerprint scripts given to the contexts of the run, in order
    tries,      \* calls of the search made by _ddgs_brain for the attempt just
                \* resolved, 0 at any other place
    killed,     \* killed["value"] of run_dynamic_flow, with the session it was set in
    book        \* the "nodes" list of the swarm store, and the node operation in
                \* progress: its position, its call, and the file it loaded

\* the variables of the specifications of the event log and of the swarm store
\* the variables of the calls that run beside one another
racing == <<job, written, pub>>

outside == <<db, clock, pruned, now, peak, fetched, last, racing, sup, fp, killed, book>>

vars == <<pc, bi, open, attempt, no_count, clicked, done, polls, eval_res,
          keylogger, selector, hint, events, swarm, cur, sess, past, exits, goal,
          tries, outside>>

\* the event log and the swarm store while the specification is of something else
LogIdle == db = <<>> /\ clock = 0 /\ pruned = NoPrune

\* no _prune_memory_now in progress
NoJob == [at |-> "idle", loaded |-> <<>>, beside |-> 0]

\* the supervisor thread not started (on_startup has not run)
NoSupervisor == [at |-> "none", backoff |-> 0, waited |-> 0, crashes |-> 0, offset |-> 0]

SupIdle == sup = NoSupervisor

\* no context given a fingerprint script
FpIdle == fp = <<>>

\* killed = {"value": False}
NotKilled == [value |-> FALSE, bi |-> 0]
KillIdle == killed = NotKilled

\* swarm_intel.json without a "nodes" key, and no node operation running
NoBook ==
    [nodes |-> <<>>, at |-> "idle", op |-> "none", url |-> "",
     db |-> [success |-> <<>>, nodes |-> <<>>], calls |-> 0]
BookIdle == book = NoBook

\* the runs that share the swarm store
Nodes == {"n1", "n2"}

\* a node that is in no swarm_publish
NoPublish ==
    [at |-> "idle", key |-> <<>>, given |-> 0, arr |-> <<>>, nodes |-> <<>>,
     done |-> <<>>]

\* no call running beside another
RaceIdle == job = NoJob /\ written = <<>> /\ pub = [n \in Nodes |-> NoPublish]

\* no call on the swarm store yet
NoCall == [op |-> "none", key |-> <<>>, given |-> 0]

SwarmIdle ==
    now = 0 /\ peak = [k \in SwarmKeys |-> 0] /\ fetched = NoRecord /\ last = NoCall

local == <<attempt, no_count, clicked, done, polls, eval_res, keylogger, selector, hint>>

NoAttempt ==
    [style |-> NoElement, guard |-> "none", called |-> <<>>, verdict |-> "none",
     seen |-> "none", recorded |-> "none", memFound |-> FALSE, proposal |-> <<>>,
     asked |-> <<>>, mem |-> NotFound, raised |-> {}]

NewSession(evs) ==
    [hostileAtStart |-> HostileRecorded(evs, TargetUrl),
     streak |-> 0,      \* consecutive Failure verdicts, up to the last evaluation
     succAt |-> 0,      \* the attempt whose evaluation first judged Success
     winAt |-> 0,       \* the attempt that clicked and was judged Success
     honeyAt |-> 0,     \* the attempt the guard first classified Honeypot
     phishAt |-> 0,     \* the attempt the guard classified Phishing
     pollGoal |-> FALSE, \* whether a poll evaluation judged Success
     escalated |-> FALSE]

\* events an earlier run can have left: a learned locator, with or without a
\* hint, and a hostile mark
PriorEvents ==
    { Event(TargetUrl, AttemptGoal, <<"button">>, <<>>, "click", "success", "Start clicked"),
      Event(TargetUrl, AttemptGoal, <<"text=start">>, <<"JS_CLICK">>, "click", "success",
            "Start clicked"),
      Event(TargetUrl, "hostile-site", <<>>, <<>>, "defense", "hostile",
            "phishing-indicators") }

PriorStores ==
    UNION { [1..n -> PriorEvents] : n \in 0..MaxPrior }

Init ==
    /\ pc = "start"
    /\ tries = 0
    /\ bi = 0
    /\ open = FALSE
    /\ attempt = 0
    /\ no_count = 0
    /\ clicked = FALSE
    /\ done = FALSE
    /\ polls = 0
    /\ eval_res = PyNone
    /\ keylogger = FALSE
    /\ selector = <<>>
    /\ hint = <<>>
    /\ events \in PriorStores
    /\ swarm = <<>>
    /\ cur = NoAttempt
    /\ sess = NewSession(events)
    /\ past = <<>>
    /\ exits = <<>>
    /\ goal = AttemptGoal
    /\ LogIdle
    /\ SwarmIdle
    /\ RaceIdle
    /\ SupIdle
    /\ FpIdle
    /\ KillIdle
    /\ BookIdle

(***************************************************************************)
(* engine                                                                  *)
(***************************************************************************)
\* ok = await diagnostics(); if not ok: return
Diagnostics ==
    /\ pc = "start"
    /\ tries' = 0
    /\ \E ok \in BOOLEAN : pc' = IF ok THEN "engine" ELSE "finished"
    /\ UNCHANGED <<bi, open, local, events, swarm, cur, sess, past, exits, goal, outside>>

\* the next browser of the list: run_dynamic_flow up to its attempt loop
OpenSession ==
    /\ pc = "engine"
    /\ tries' = 0
    /\ bi < Len(Browsers)
    /\ bi' = bi + 1
    /\ open' = TRUE
    /\ attempt' = 0
    /\ no_count' = 0
    /\ clicked' = FALSE
    /\ done' = FALSE
    /\ polls' = 0
    /\ eval_res' = PyNone
    /\ keylogger' = FALSE
    /\ selector' = <<>>
    /\ hint' = <<>>
    /\ cur' = NoAttempt
    /\ sess' = NewSession(events)
    /\ pc' = "loop"
    /\ UNCHANGED <<events, swarm, past, exits, goal, outside>>

\* the list of browsers is used up
EngineEnd ==
    /\ pc = "engine"
    /\ tries' = 0
    /\ bi = Len(Browsers)
    /\ pc' = "finished"
    /\ UNCHANGED <<bi, open, local, events, swarm, cur, sess, past, exits, goal, outside>>

(***************************************************************************)
(* run_dynamic_flow                                                        *)
(***************************************************************************)
\* lines 452-470: capture the state, resolve and parse the selector of the attempt
Resolve ==
    /\ pc = "loop"
    /\ attempt' = attempt + 1
    /\ \E kl \in BOOLEAN, fails \in 0..MaxFails, text \in SearchTexts :
          \* each value is bound once, as the locals of the code are
          \E mem \in {consult_selector(events, TargetUrl, AttemptGoal)},
             brain \in {_ddgs_brain(fails, text)} :
          \E proposal \in {brain.text} :
          \E sel_raw \in {ResolveRaw(mem, proposal, AutonomousFix)} :
          \E parsed \in {_parse_hint(sel_raw)} :
              /\ tries' = IF mem.found THEN 0 ELSE brain.tries
              /\ IF Abandons(sel_raw)
                 THEN /\ pc' = LoopNext(attempt')
                      /\ UNCHANGED <<keylogger, selector, hint>>
                 ELSE /\ keylogger' = kl
                      /\ selector' = parsed.selector
                      /\ hint' = parsed.hint
                      /\ pc' = "guard"
              /\ cur' = [NoAttempt EXCEPT
                            !.memFound = mem.found,
                            !.proposal = IF mem.found THEN <<>> ELSE proposal,
                            !.asked = AskedFor(mem, proposal, AutonomousFix),
                            !.mem = mem]
    /\ UNCHANGED <<bi, open, no_count, clicked, done, polls, eval_res,
                   events, swarm, sess, past, exits, goal, outside>>

\* lines 471-492: the honeypot check, then the phishing guard
Guard ==
    /\ pc = "guard"
    /\ tries' = 0
    /\ \E st \in Styles :
          IF IsHoneypot(st)
          THEN /\ events' = record_hostile(events, TargetUrl, "honeypot-detected")
               /\ cur' = [cur EXCEPT !.style = st, !.guard = "Honeypot"]
               /\ sess' = [sess EXCEPT !.honeyAt = IF @ = 0 THEN attempt ELSE @]
               /\ pc' = Goto(AfterHoneypot, attempt)
          ELSE IF ~_phishing_guard(UrlFlagged, keylogger)
          THEN /\ events' = record_hostile(events, TargetUrl, "phishing-indicators")
               /\ cur' = [cur EXCEPT !.style = st, !.guard = "Phishing"]
               /\ sess' = [sess EXCEPT !.phishAt = IF @ = 0 THEN attempt ELSE @]
               /\ pc' = Goto(AfterPhishing, attempt)
          ELSE /\ events' = events
               /\ cur' = [cur EXCEPT !.style = st, !.guard = "Safe"]
               /\ sess' = sess
               /\ pc' = "interact"
    /\ UNCHANGED <<bi, open, local, swarm, past, exits, goal, outside>>

\* lines 493-503: move to the selector and activate it
Interact ==
    /\ pc = "interact"
    /\ tries' = 0
    /\ \E works \in SUBSET Strategies :
          LET r == Activate(hint, works)
          IN  /\ clicked' = r.clicked
              /\ cur' = [cur EXCEPT
                            !.called = r.called,
                            !.raised = {s \in Strategies \ works :
                                           \E i \in 1..Len(r.called) : r.called[i] = s}]
    /\ pc' = "evaluate"
    /\ UNCHANGED <<bi, open, attempt, no_count, done, polls, eval_res,
                   keylogger, selector, hint, events, swarm, sess, past, exits, goal,
                   outside>>

\* lines 504-532: evaluate the attempt, count, switch the browser or record
Evaluate ==
    /\ pc = "evaluate"
    /\ tries' = 0
    /\ \E equal \in BOOLEAN :
          LET res == self_evaluate(equal)
              count == IF CountsAsFailure(res) THEN no_count + 1 ELSE no_count
              noted == [cur EXCEPT !.verdict = Verdict(res), !.seen = Classify(res)]
              summed == [sess EXCEPT
                            !.streak = IF Verdict(res) = "Failure" THEN @ + 1 ELSE 0,
                            !.succAt = IF @ = 0 /\ Verdict(res) = "Success"
                                       THEN attempt ELSE @,
                            !.winAt = IF @ = 0 /\ Verdict(res) = "Success" /\ clicked
                                      THEN attempt ELSE @]
          IN  /\ eval_res' = res
              /\ no_count' = count
              /\ IF CountsAsFailure(res) /\ Escalates(count)
                 THEN \* record_failure, the alert, then backup_vault, a name that
                      \* main_clone does not define: the NameError leaves
                      \* run_dynamic_flow and engine before the session is closed
                      /\ events' = record_failure(events, TargetUrl, AttemptGoal,
                                                  selector, hint, "Hydra switch trigger")
                      /\ cur' = [noted EXCEPT !.recorded = "failure"]
                      /\ sess' = [summed EXCEPT !.escalated = TRUE]
                      /\ exits' = Append(exits, ExitRecord("raise", EscalationEffects))
                      /\ pc' = "crashed"
                 ELSE /\ IF RecordsSuccess(clicked, res)
                         THEN /\ events' = record_success(events, TargetUrl, AttemptGoal,
                                                          selector, hint, "Start clicked")
                              /\ cur' = [noted EXCEPT !.recorded = "success"]
                         ELSE IF RecordsFailure(clicked, res)
                         THEN /\ events' = record_failure(events, TargetUrl, AttemptGoal,
                                               selector, hint, "Start click inconclusive")
                              /\ cur' = [noted EXCEPT !.recorded = "failure"]
                         ELSE /\ events' = events
                              /\ cur' = noted
                      /\ sess' = summed
                      /\ exits' = exits
                      /\ pc' = IF BreaksLoop(clicked, res) THEN "poll"
                               ELSE LoopNext(attempt)
    /\ UNCHANGED <<bi, open, attempt, clicked, done, polls, keylogger,
                   selector, hint, swarm, past, goal, outside>>

\* lines 533-542: the poll loop
Poll ==
    /\ pc = "poll"
    /\ tries' = 0
    /\ \E goalAt \in PollGoalTimes :
          LET r == PollLoop(1, goalAt)
          IN  /\ polls' = r.polls
              /\ done' = r.done
              /\ eval_res' = r.last
              /\ sess' = [sess EXCEPT !.pollGoal = goalAt > 0]
              /\ events' = IF r.done
                           THEN record_success(events, TargetUrl, PollGoal,
                                               <<"dynamic">>, <<>>, "Hello World visible")
                           ELSE events
    /\ cur' = NoAttempt
    /\ pc' = "exit"
    /\ UNCHANGED <<bi, open, attempt, no_count, clicked, keylogger,
                   selector, hint, swarm, past, exits, goal, outside>>

\* lines 543-561 and engine's test of the result: wipe, reflect, close, return;
\* the locals of run_dynamic_flow end with it
Exit ==
    /\ pc = "exit"
    /\ tries' = 0
    /\ open' = ~Closed(ExitEffects)
    /\ LET returned == ReturnValue(clicked, done)
       IN  /\ past' = Append(past, [returned |-> returned,
                                    hostile |-> sess.honeyAt > 0 \/ sess.phishAt > 0,
                                    phish |-> sess.phishAt > 0,
                                    won |-> sess.winAt > 0,
                                    pollGoal |-> sess.pollGoal])
           /\ pc' = IF EngineStops(returned) THEN "finished" ELSE "engine"
    /\ attempt' = 0
    /\ no_count' = 0
    /\ clicked' = FALSE
    /\ done' = FALSE
    /\ polls' = 0
    /\ eval_res' = PyNone
    /\ keylogger' = FALSE
    /\ selector' = <<>>
    /\ hint' = <<>>
    /\ sess' = NewSession(events)
    /\ exits' = Append(exits, ExitRecord("return", ExitEffects))
    /\ UNCHANGED <<bi, events, swarm, cur, goal, outside>>

\* an exception that no except clause of run_dynamic_flow catches, raised at an
\* await of an open session (asyncio.CancelledError when the task is cancelled:
\* it is no Exception): lines 425-561 stand in no try/finally, so the exception
\* leaves run_dynamic_flow and engine at once, and lines 543-560 are not run.  What
\* becomes of the browser is left to the context manager of line 364.
Abort ==
    /\ pc \in {"loop", "guard", "interact", "evaluate", "poll", "exit"}
    /\ tries' = 0
    /\ pc' = "aborted"
    /\ open' \in BOOLEAN
    /\ attempt' = 0
    /\ no_count' = 0
    /\ clicked' = FALSE
    /\ done' = FALSE
    /\ polls' = 0
    /\ eval_res' = PyNone
    /\ keylogger' = FALSE
    /\ selector' = <<>>
    /\ hint' = <<>>
    /\ cur' = NoAttempt
    /\ sess' = NewSession(events)
    /\ exits' = Append(exits, ExitRecord("raise", <<>>))
    /\ UNCHANGED <<bi, events, swarm, past, goal, outside>>

Next ==
    \/ Diagnostics
    \/ OpenSession
    \/ EngineEnd
    \/ Resolve
    \/ Guard
    \/ Interact
    \/ Evaluate
    \/ Poll
    \/ Exit
    \/ Abort

Spec == Init /\ [][Next]_vars

\* engine is one task of the event loop of asyncio.run: as long as each call it
\* awaits returns or raises, its next step is taken
SpecFair == Spec /\ WF_vars(Next)

(***************************************************************************)
(* engine with the kill switch of lines 392-410: the page calls _kill when   *)
(* Ctrl+Alt+K is pressed, and the event loop runs it at an await of          *)
(* run_dynamic_flow                                                          *)
(***************************************************************************)
InitKill == Init /\ events = <<>>

\* _kill: killed["value"] = True, the two alerts, context and browser closed
Kill ==
    /\ pc \in {"loop", "guard", "interact", "evaluate", "poll", "exit"}
    /\ ~(killed.value /\ killed.bi = bi)
    /\ killed' = [value |-> TRUE, bi |-> bi]
    /\ open' = FALSE
    /\ UNCHANGED <<pc, bi, local, events, swarm, cur, sess, past, exits, goal, tries,
                   db, clock, pruned, now, peak, fetched, last, racing, sup, fp, book>>

\* what the calls on the page of a closed browser come to: the style lookup
\* raises, each click raises, capture_state returns "" and the evaluator finds
\* it unequal to what is expected
OnClosedBrowser ==
    /\ pc = "guard" => cur'.style = StyleError
    /\ pc = "interact" => ~clicked'
    /\ pc \in {"evaluate", "poll"} => eval_res' = self_evaluate(FALSE)

\* a step of engine: killed is read by no line of it
RunOn == Next /\ ((killed.value /\ killed.bi = bi) => OnClosedBrowser)

NextKill ==
    \/ Kill
    \/ RunOn

SpecKill == InitKill /\ [][NextKill]_vars

(***************************************************************************)
(* Locator resolution alone: lines 452-470 of run_dynamic_flow for each    *)
(* goal text of the program and each event store of MaxStore events         *)
(***************************************************************************)
\* number of events in the store of a resolution
MaxStore == 3

\* events that runs leave in the store: the learned locators, the answer of an
\* unavailable proposer recorded as one, and the hostile marks
ResolveEvents ==
    PriorEvents \cup
    { Event(TargetUrl, AttemptGoal, BrainDown, <<>>, "click", "success", "Start clicked"),
      Event(TargetUrl, "hostile-site", <<>>, <<>>, "defense", "hostile",
            "honeypot-detected") }

ResolveStores ==
    UNION { [1..n -> ResolveEvents] : n \in 0..MaxStore }

\* the engine at position p before any session, with the store evs
EngineAt(p, evs) ==
    /\ pc = p
    /\ tries = 0
    /\ bi = 0
    /\ open = FALSE
    /\ attempt = 0
    /\ no_count = 0
    /\ clicked = FALSE
    /\ done = FALSE
    /\ polls = 0
    /\ eval_res = PyNone
    /\ keylogger = FALSE
    /\ selector = <<>>
    /\ hint = <<>>
    /\ events = evs
    /\ cur = NoAttempt
    /\ sess = NewSession(evs)
    /\ past = <<>>
    /\ exits = <<>>

\* what swarm_publish of another node can have left in the swarm store: nothing,
\* a record of the page, a record of another page of its domain
ResolveSwarms ==
    { <<>>,
      <<[goal |-> AttemptGoal, url |-> TargetUrl, selector |-> <<"button">>,
         success_count |-> 2, ts |-> 0]>>,
      <<[goal |-> AttemptGoal, url |-> OtherUrl, selector |-> <<"text=start">>,
         success_count |-> 1, ts |-> 0]>> }

InitResolve ==
    /\ \E evs \in ResolveStores : EngineAt("resolve", evs)
    /\ goal \in Goals
    /\ swarm \in ResolveSwarms
    /\ LogIdle
    /\ SwarmIdle
    /\ RaceIdle
    /\ SupIdle
    /\ FpIdle
    /\ KillIdle
    /\ BookIdle

\* lines 454-470 for the goal: the selector and hint of the attempt, or the
\* attempt abandoned
ResolveGoal ==
    /\ pc = "resolve"
    /\ \E proposal \in BrainOutputs :
          LET mem == consult_selector(events, TargetUrl, goal)
              sel_raw == ResolveRawFor(mem, proposal, AutonomousFix, goal)
              parsed == _parse_hint(sel_raw)
          IN  /\ IF Abandons(sel_raw)
                 THEN /\ pc' = "abandoned"
                      /\ UNCHANGED <<selector, hint>>
                 ELSE /\ selector' = parsed.selector
                      /\ hint' = parsed.hint
                      /\ pc' = "resolved"
              /\ cur' = [NoAttempt EXCEPT
                            !.memFound = mem.found,
                            !.proposal = IF mem.found THEN <<>> ELSE proposal,
                            !.asked = AskedFor(mem, proposal, AutonomousFix),
                            !.mem = mem]
    /\ UNCHANGED <<bi, open, attempt, no_count, clicked, done, polls, eval_res,
                   keylogger, events, swarm, sess, past, exits, goal, tries, outside>>

NextResolve == ResolveGoal

SpecResolve == InitResolve /\ [][NextResolve]_vars

(***************************************************************************)
(* Locator resolution from memory: lines 454-470 of run_dynamic_flow for    *)
(* each selector and hint that a Success event of the page can hold         *)
(***************************************************************************)
\* number of tokens of a stored selector
MaxTokens == 3
\* number of tokens of a stored hint
MaxHintTokens == 2

SelectorTokens == {"button", " ", "||", "js_click"}
HintTokens == {"js_click", "FORCE_CLICK", " ", "||"}

\* the strings of 0..n tokens
Texts(tokens, n) == UNION {[1..k -> tokens] : k \in 0..n}

\* the stores of one Success event of the page and the goal
MemoryStores ==
    { <<Event(TargetUrl, AttemptGoal, sel, h, "click", "success", "Start clicked")>> :
        sel \in Texts(SelectorTokens, MaxTokens) \ {<<>>},
        h \in Texts(HintTokens, MaxHintTokens) }

InitMemory ==
    /\ \E evs \in MemoryStores : EngineAt("resolve", evs)
    /\ goal = AttemptGoal
    /\ swarm = <<>>
    /\ LogIdle
    /\ SwarmIdle
    /\ RaceIdle
    /\ SupIdle
    /\ FpIdle
    /\ KillIdle
    /\ BookIdle

NextMemory == ResolveGoal

SpecMemory == InitMemory /\ [][NextMemory]_vars

(***************************************************************************)
(* The event log alone: record_event appends, backup_vault prunes           *)
(***************************************************************************)
\* number of events appended to an empty log
MaxLog == 6
\* number of events appended to a log that is one short of the threshold
MaxOver == 2

\* the log of n events that repeats the kinds of pat, recorded at times 1..n
Filled(n, pat) == [i \in 1..n |-> LogEvent(pat[((i - 1) % Len(pat)) + 1], i)]

\* what the recorded events repeat in a long log: success and failure in turn,
\* failures only, runs of three failures, runs of four failures
Patterns ==
    { <<"succA", "failA">>,
      <<"failA">>,
      <<"failA", "failA", "failA", "succA">>,
      <<"failA", "failA", "failA", "failA", "succA">> }

\* logs grown by earlier runs: one event short of the threshold, and past it
LongLogs ==
    { Filled(n, pat) : n \in {PruneThreshold - 1, PruneThreshold + SummarizedCount},
                       pat \in Patterns }

InitLog ==
    /\ EngineAt("log", <<>>)
    /\ goal = AttemptGoal
    /\ swarm = <<>>
    /\ SwarmIdle
    /\ RaceIdle
    /\ SupIdle
    /\ FpIdle
    /\ KillIdle
    /\ BookIdle
    /\ db \in {<<>>} \cup LongLogs
    /\ clock = Len(db)
    /\ pruned = NoPrune

\* the lengths at which the model goes on appending
AppendAllowed(n) ==
    \/ n < MaxLog
    \/ n >= PruneThreshold - 1 /\ n < PruneThreshold - 1 + MaxOver

engine == <<pc, bi, open, attempt, no_count, clicked, done, polls, eval_res,
            keylogger, selector, hint, events, cur, sess, past, exits, goal, tries>>

\* record_event: write_event inserts one row, and nothing else
RecordEvent ==
    /\ ~pruned.called
    /\ AppendAllowed(Len(db))
    /\ clock' = clock + 1
    /\ \E kind \in LogKinds : db' = Append(db, LogEvent(kind, clock'))
    /\ UNCHANGED <<engine, sup, fp, killed, book, swarm, pruned, now, peak, fetched, last, racing>>

\* backup_vault: _prune_memory_now loads the log, prunes it and saves the result
\* in place of the table
PruneNow ==
    /\ ~pruned.called
    /\ clock' = clock + 1
    /\ LET out == _prune_memory(_load(db), clock')
       IN  /\ db' = out
           /\ pruned' = [called |-> TRUE, before |-> db, at |-> clock',
                         given |-> Retained(_load(db), clock'), after |-> out]
    /\ UNCHANGED <<engine, sup, fp, killed, book, swarm, now, peak, fetched, last, racing>>

NextLog ==
    \/ RecordEvent
    \/ PruneNow

SpecLog == InitLog /\ [][NextLog]_vars

(***************************************************************************)
(* The summary of a pruning, on logs of events of several goals and sites    *)
(***************************************************************************)
\* the events of a mixed log: the clicks and guards of run_dynamic_flow, the
\* failures that arkon_healer records, successes on pages of other sites
MixedKinds == {"click", "miss", "hostile", "poll", "react", "reflect", "shop", "bank"}

MixedEvent(kind, ts) ==
    CASE kind = "click" -> LogEvent("succA", ts)
      [] kind = "miss" -> LogEvent("failA", ts)
      [] kind = "hostile" ->
            Stamped(ts, Event(TargetUrl, "hostile-site", <<>>, <<>>, "defense",
                              "hostile", <<"honeypot-detected">>))
      [] kind = "poll" ->
            Stamped(ts, Event(TargetUrl, PollGoal, <<"dynamic">>, <<>>, "click",
                              "success", <<"Hello World visible">>))
      [] kind = "react" ->
            Stamped(ts, Event(LocalUrl, PaddedProblem, <<>>, <<>>, "click",
                              "failure", <<"No action proposed">>))
      [] kind = "reflect" ->
            Stamped(ts, Event(LocalUrl, "self_reflect", <<>>, <<>>, "click",
                              "failure", <<"error">>))
      [] kind = "shop" ->
            Stamped(ts, Event(ShopUrl, SubmitGoal, <<"#submit">>, <<>>, "click",
                              "success", <<"Start clicked">>))
      [] OTHER ->
            Stamped(ts, Event(BankUrl, Problem, <<"#login">>, <<>>, "click",
                              "success", <<"Start clicked">>))

\* a pattern in which the first kind comes four times, the next three times,
\* the next twice and the last once
Weighted(ks) ==
    <<ks[1], ks[1], ks[1], ks[1], ks[2], ks[2], ks[2], ks[3], ks[3], ks[4]>>

\* the kinds that the long mixed logs are made of, and those appended to them
MixedHeads == {"miss", "poll", "react", "shop", "bank"}
MixedTails == {"hostile", "reflect", "bank"}

MixedPatterns ==
    { Weighted(ks) : ks \in {f \in [1..4 -> MixedHeads] :
                                \A a, b \in 1..4 : a # b => f[a] # f[b]} }
      \cup { <<"click">>, <<"reflect">>, <<"hostile", "hostile", "reflect">> }

\* a log whose first event is the click that succeeded, and none after it is
EarlyWin ==
    [i \in 1..PruneThreshold |-> MixedEvent(IF i = 1 THEN "click" ELSE "reflect", i)]

\* logs that have reached the threshold
MixedLogs ==
    { [i \in 1..PruneThreshold |-> MixedEvent(pat[((i - 1) % Len(pat)) + 1], i)] :
        pat \in MixedPatterns }
    \cup {EarlyWin}

InitDigest ==
    /\ EngineAt("digest", <<>>)
    /\ goal = AttemptGoal
    /\ swarm = <<>>
    /\ SwarmIdle
    /\ RaceIdle
    /\ SupIdle
    /\ FpIdle
    /\ KillIdle
    /\ BookIdle
    /\ db \in MixedLogs
    /\ clock = Len(db)
    /\ pruned = NoPrune

\* record_event, once the log is at the threshold
RecordMixed ==
    /\ ~pruned.called
    /\ Len(db) = PruneThreshold
    /\ clock' = clock + 1
    /\ \E kind \in MixedTails : db' = Append(db, MixedEvent(kind, clock'))
    /\ UNCHANGED <<engine, sup, fp, killed, book, swarm, pruned, now, peak, fetched, last, racing>>

NextDigest ==
    \/ RecordMixed
    \/ PruneNow

SpecDigest == InitDigest /\ [][NextDigest]_vars

(***************************************************************************)
(* The swarm store alone: swarm_publish and swarm_fetch as time passes        *)
(***************************************************************************)
\* number of calls of swarm_publish before, and after, the retention time passes
MaxPublish == 3

InitSwarm ==
    /\ EngineAt("swarm", <<>>)
    /\ goal = AttemptGoal
    /\ LogIdle
    /\ swarm = <<>>
    /\ SwarmIdle
    /\ RaceIdle
    /\ SupIdle
    /\ FpIdle
    /\ KillIdle
    /\ BookIdle

\* swarm_publish(selector_record) at time now; big is whether the file of the
\* store, which is there once a publish has saved it, is larger than 2,000,000
\* bytes (the records are saved with every field the caller passed)
Publish ==
    /\ (now % Retention) < MaxPublish
    /\ \E key \in SwarmKeys, given \in GivenCounts, big \in BOOLEAN :
          /\ big => now > 0
          /\ swarm' = swarm_publish(swarm, key, given, big, now)
          /\ last' = [op |-> "publish", key |-> key, given |-> given]
    /\ now' = now + 1
    /\ peak' = [k \in SwarmKeys |->
                   IF CountOf(swarm', k) > peak[k] THEN CountOf(swarm', k) ELSE peak[k]]
    /\ UNCHANGED <<engine, sup, fp, killed, book, db, clock, pruned, fetched, racing>>

\* the retention time passes with no call
Pass ==
    /\ now < Retention
    /\ now' = now + Retention
    /\ last' = [op |-> "pass", key |-> <<>>, given |-> 0]
    /\ UNCHANGED <<engine, sup, fp, killed, book, swarm, db, clock, pruned, peak, fetched, racing>>

\* swarm_fetch(goal, url): reads the store and returns a record or None
Fetch ==
    /\ \E g \in {AttemptGoal, PollGoal}, u \in {TargetUrl, OtherUrl} :
          fetched' = swarm_fetch(swarm, g, u)
    /\ last' = [op |-> "fetch", key |-> <<>>, given |-> 0]
    /\ UNCHANGED <<engine, sup, fp, killed, book, swarm, db, clock, pruned, now, peak, racing>>

NextSwarm ==
    \/ Publish
    \/ Pass
    \/ Fetch

SpecSwarm == InitSwarm /\ [][NextSwarm]_vars

(***************************************************************************)
(* The event log grown to the number of rows that _load reads, and past it  *)
(***************************************************************************)
\* number of events recorded past the rows that _load reads
MaxBeyond == 2

\* logs one event short of what _load reads
FullLogs ==
    { Filled(LoadLimit - 1, pat) :
        pat \in { <<"succA", "failA">>, <<"failA", "failA", "failA", "succA">> } }

InitFull ==
    /\ EngineAt("full", <<>>)
    /\ goal = AttemptGoal
    /\ swarm = <<>>
    /\ SwarmIdle
    /\ RaceIdle
    /\ SupIdle
    /\ FpIdle
    /\ KillIdle
    /\ BookIdle
    /\ db \in FullLogs
    /\ clock = Len(db)
    /\ pruned = NoPrune

\* record_event on a log that no backup_vault has pruned for long
RecordLate ==
    /\ ~pruned.called
    /\ Len(db) < LoadLimit + MaxBeyond
    /\ clock' = clock + 1
    /\ \E kind \in LogKinds : db' = Append(db, LogEvent(kind, clock'))
    /\ UNCHANGED <<engine, sup, fp, killed, book, swarm, pruned, now, peak, fetched, last, racing>>

NextFull ==
    \/ RecordLate
    \/ PruneNow

SpecFull == InitFull /\ [][NextFull]_vars

(***************************************************************************)
(* The event log pruned again and again, with events recorded in between    *)
(***************************************************************************)
\* number of events recorded, and of prunings
MaxWritten == 7
MaxPrunes == 3

InitRepeat ==
    /\ EngineAt("repeat", <<>>)
    /\ goal = AttemptGoal
    /\ swarm = <<>>
    /\ SwarmIdle
    /\ RaceIdle
    /\ SupIdle
    /\ FpIdle
    /\ KillIdle
    /\ BookIdle
    /\ LogIdle

\* record_event: one row more in the table; written keeps every event recorded
RecordAgain ==
    /\ Len(written) < MaxWritten
    /\ clock' = clock + 1
    /\ \E kind \in {"failA", "succA"} :
          /\ db' = Append(db, LogEvent(kind, clock'))
          /\ written' = Append(written, LogEvent(kind, clock'))
    /\ UNCHANGED <<engine, sup, fp, killed, book, swarm, pruned, now, peak, fetched, last, job, pub>>

\* backup_vault once more: _prune_memory_now on the log as it is now
PruneAgain ==
    /\ clock < Len(written) + MaxPrunes
    /\ clock' = clock + 1
    /\ LET out == _prune_memory(_load(db), clock')
       IN  /\ db' = out
           /\ pruned' = [called |-> TRUE, before |-> db, at |-> clock',
                         given |-> Retained(_load(db), clock'), after |-> out]
    /\ UNCHANGED <<engine, sup, fp, killed, book, swarm, now, peak, fetched, last, racing>>

NextRepeat ==
    \/ RecordAgain
    \/ PruneAgain

SpecRepeat == InitRepeat /\ [][NextRepeat]_vars

(***************************************************************************)
(* swarm_fetch on the stores that swarm_publish can have saved               *)
(***************************************************************************)
\* number of records in the store
MaxStored == 3

\* the records of the store: of the goal of the attempts on pages of two sites,
\* without a selector or with one of two, published once or counted up to
\* three, and one of another goal
FetchRecords ==
    [goal : {AttemptGoal}, url : {TargetUrl, OtherUrl, ShopUrl},
     selector : {<<>>, <<"button">>, <<"text=start">>}, success_count : {1, 3},
     ts : {0}]
    \cup {[goal |-> PollGoal, url |-> TargetUrl, selector |-> <<"button">>,
           success_count |-> 3, ts |-> 0]}

\* the stores: swarm_publish keeps one record for a goal, url and selector
FetchStores ==
    { arr \in UNION {[1..n -> FetchRecords] : n \in 0..MaxStored} :
        \A i, j \in 1..Len(arr) : i # j => KeyOf(arr[i]) # KeyOf(arr[j]) }

InitFetch ==
    /\ EngineAt("fetch", <<>>)
    /\ goal = AttemptGoal
    /\ LogIdle
    /\ swarm \in FetchStores
    /\ SwarmIdle
    /\ RaceIdle
    /\ SupIdle
    /\ FpIdle
    /\ KillIdle
    /\ BookIdle

\* swarm_fetch(goal, url), the arguments kept beside what it returned
Lookup ==
    /\ \E g \in {AttemptGoal, PollGoal}, u \in {TargetUrl, ShopUrl, BankUrl} :
          /\ fetched' = swarm_fetch(swarm, g, u)
          /\ last' = [op |-> "lookup", key |-> <<g, u>>, given |-> 0]
    /\ UNCHANGED <<engine, sup, fp, killed, book, swarm, db, clock, pruned, now, peak, racing>>

NextFetch == Lookup

SpecFetch == InitFetch /\ [][NextFetch]_vars

(***************************************************************************)
(* The event log with record_event running beside _prune_memory_now: no    *)
(* lock is taken by either, and _save replaces the table by what            *)
(* _prune_memory made of the rows that _load read                           *)
(***************************************************************************)
\* number of events appended beside the compaction
MaxRace == 3

\* the logs at the start: empty, four failures in a row, one event past the
\* threshold
RaceLogs ==
    { <<>>,
      Filled(4, <<"failA">>),
      Filled(PruneThreshold + 1, <<"succA", "failA">>) }

InitRace ==
    /\ EngineAt("race", <<>>)
    /\ goal = AttemptGoal
    /\ swarm = <<>>
    /\ SwarmIdle
    /\ db \in RaceLogs
    /\ clock = Len(db)
    /\ pruned = NoPrune
    /\ job = NoJob
    /\ written = db
    /\ pub = [n \in Nodes |-> NoPublish]
    /\ SupIdle
    /\ FpIdle
    /\ KillIdle
    /\ BookIdle

\* record_event of a run or thread: write_event inserts the row and commits
AppendEvent ==
    /\ job.beside < MaxRace
    /\ clock' = clock + 1
    /\ \E kind \in LogKinds :
          /\ db' = Append(db, LogEvent(kind, clock'))
          /\ written' = Append(written, LogEvent(kind, clock'))
    /\ job' = [job EXCEPT !.beside = @ + 1]
    /\ UNCHANGED <<engine, sup, fp, killed, book, swarm, pruned, now, peak, fetched, last, pub>>

\* db = am._load() of _prune_memory_now
LoadLog ==
    /\ job.at = "idle"
    /\ job' = [job EXCEPT !.at = "loaded", !.loaded = _load(db)]
    /\ UNCHANGED <<engine, sup, fp, killed, book, swarm, db, clock, pruned, now, peak, fetched, last, written,
                   pub>>

\* db2 = am._prune_memory(db); am._save(db2): DELETE FROM events, then the rows
\* of db2 inserted, in one transaction
SavePruned ==
    /\ job.at = "loaded"
    /\ clock' = clock + 1
    /\ LET out == _prune_memory(job.loaded, clock')
       IN  /\ db' = out
           /\ pruned' = [called |-> TRUE, before |-> job.loaded, at |-> clock',
                         given |-> Retained(job.loaded, clock'), after |-> out]
    /\ job' = [job EXCEPT !.at = "saved"]
    /\ UNCHANGED <<engine, sup, fp, killed, book, swarm, now, peak, fetched, last, written, pub>>

NextRace ==
    \/ AppendEvent
    \/ LoadLog
    \/ SavePruned

SpecRace == InitRace /\ [][NextRace]_vars

(***************************************************************************)
(* The swarm store with the swarm_publish of two nodes running beside one   *)
(* another: each loads the file, changes what it loaded and saves it         *)
(***************************************************************************)
\* number of calls of swarm_publish of each node
MaxCalls == 2

\* the triples that the two nodes publish
ShareKeys ==
    { <<AttemptGoal, TargetUrl, <<"button">>>>,
      <<AttemptGoal, TargetUrl, <<"text=start">>>> }

InitShare ==
    /\ EngineAt("share", <<>>)
    /\ goal = AttemptGoal
    /\ LogIdle
    /\ swarm = <<>>
    /\ SwarmIdle
    /\ RaceIdle
    /\ SupIdle
    /\ FpIdle
    /\ KillIdle
    /\ BookIdle

\* db = _load() of swarm_publish(selector_record) on node n
PublishLoad(n) ==
    /\ pub[n].at = "idle"
    /\ Len(pub[n].done) < MaxCalls
    /\ \E key \in ShareKeys, given \in GivenCounts :
          pub' = [pub EXCEPT ![n] = [@ EXCEPT !.at = "loaded", !.key = key,
                                               !.given = given, !.arr = swarm,
                                               !.nodes = book.nodes]]
    /\ UNCHANGED <<engine, sup, fp, killed, book, swarm, db, clock, pruned, now, peak, fetched, last, job,
                   written>>

\* the rest of swarm_publish on node n: the record raised or appended in what
\* was loaded, and _save(_clean_swarm(db)) writing the file, the "nodes" that
\* were loaded with it
PublishSave(n) ==
    /\ pub[n].at = "loaded"
    /\ \E big \in BOOLEAN :
          /\ big => swarm # <<>>
          /\ swarm' = swarm_publish(pub[n].arr, pub[n].key, pub[n].given, big, now)
    /\ pub' = [pub EXCEPT ![n] = [@ EXCEPT !.at = "idle", !.arr = <<>>,
                                           !.nodes = <<>>,
                                           !.done = Append(@, pub[n].key)]]
    /\ book' = [book EXCEPT !.nodes = pub[n].nodes]
    /\ UNCHANGED <<engine, sup, fp, killed, db, clock, pruned, now, peak, fetched, last, job, written>>

NextShare ==
    \/ \E n \in Nodes : PublishLoad(n)
    \/ \E n \in Nodes : PublishSave(n)

SpecShare == InitShare /\ [][NextShare]_vars

(***************************************************************************)
(* The swarm store with the node operations of arkon_swarm (register_node,  *)
(* heartbeat_from, ping_swarm) running beside a swarm_publish: each loads   *)
(* the whole file, changes the "nodes" of what it loaded and saves it       *)
(***************************************************************************)
\* number of node operations called
MaxNodeCalls == 3

\* the urls of the nodes that register
NodeUrls == {"https://a.hf.space", "https://b.hf.space"}

NodeOps == {"register_node", "heartbeat_from", "ping_swarm"}

\* what the request of /health of ping_swarm comes to: code 200, another code
\* returned without an exception, an exception
Healths == {"alive", "other", "down"}

\* the index in nodes of the first node of the url, 0 when there is none
NodeAt(nodes, url) ==
    IF \E i \in 1..Len(nodes) : nodes[i].url = url
    THEN CHOOSE i \in 1..Len(nodes) :
            /\ nodes[i].url = url
            /\ \A j \in 1..(i - 1) : nodes[j].url # url
    ELSE 0

\* lines 113-122 of register_node(url): last_seen set on the node of the url,
\* or the node appended with status "unknown"
register_node(nodes, url, t) ==
    IF NodeAt(nodes, url) > 0
    THEN [nodes EXCEPT ![NodeAt(nodes, url)].last_seen = t]
    ELSE Append(nodes, [url |-> url, last_seen |-> t, status |-> "unknown"])

\* lines 127-133 of heartbeat_from(url): the node of the url set alive, no node
\* appended
heartbeat_from(nodes, url, t) ==
    IF NodeAt(nodes, url) > 0
    THEN [nodes EXCEPT ![NodeAt(nodes, url)] =
              [@ EXCEPT !.last_seen = t, !.status = "alive"]]
    ELSE nodes

\* lines 141-155 of ping_swarm: health[i] is what the request of node i came to
ping_swarm(nodes, health, t) ==
    [i \in 1..Len(nodes) |->
        IF health[i] = "alive"
        THEN [nodes[i] EXCEPT !.status = "alive", !.last_seen = t]
        ELSE IF health[i] = "down" THEN [nodes[i] EXCEPT !.status = "down"]
        ELSE nodes[i]]

\* changed of ping_swarm
PingChanged(health) == \E i \in DOMAIN health : health[i] # "other"

InitNodes ==
    /\ EngineAt("nodes", <<>>)
    /\ goal = AttemptGoal
    /\ LogIdle
    /\ swarm = <<>>
    /\ SwarmIdle
    /\ RaceIdle
    /\ SupIdle
    /\ FpIdle
    /\ KillIdle
    /\ BookIdle

\* db = _load() of a node operation
NodeLoad ==
    /\ book.at = "idle"
    /\ book.calls < MaxNodeCalls
    /\ \E op \in NodeOps, url \in NodeUrls :
          book' = [book EXCEPT !.at = "loaded", !.op = op,
                               !.url = IF op = "ping_swarm" THEN "" ELSE url,
                               !.db = [success |-> swarm, nodes |-> book.nodes],
                               !.calls = @ + 1]
    /\ UNCHANGED <<engine, sup, fp, killed, swarm, db, clock, pruned, now, peak,
                   fetched, last, racing>>

\* the rest of the node operation: the nodes changed in what was loaded, and
\* _save(db) writing the whole of it; ping_swarm saves only if changed
NodeSave ==
    /\ book.at = "loaded"
    /\ \E health \in [1..Len(book.db.nodes) -> Healths] :
          LET saves == book.op = "ping_swarm" => PingChanged(health)
              nodes == CASE book.op = "register_node" ->
                                register_node(book.db.nodes, book.url, now)
                         [] book.op = "heartbeat_from" ->
                                heartbeat_from(book.db.nodes, book.url, now)
                         [] OTHER -> ping_swarm(book.db.nodes, health, now)
          IN  /\ swarm' = IF saves THEN book.db.success ELSE swarm
              /\ book' = [book EXCEPT !.at = "idle",
                                      !.nodes = IF saves THEN nodes ELSE @,
                                      !.db = NoBook.db]
    /\ UNCHANGED <<engine, sup, fp, killed, db, clock, pruned, now, peak, fetched,
                   last, racing>>

NextNodes ==
    \/ PublishLoad("n1")
    \/ PublishSave("n1")
    \/ NodeLoad
    \/ NodeSave

SpecNodes == InitNodes /\ [][NextNodes]_vars

(***************************************************************************)
(* The supervisor thread of app.py (lines 176-186) around _telegram_loop;   *)
(* times are in ms                                                          *)
(***************************************************************************)
\* number of exceptions that leave _telegram_loop
MaxCrashes == 7
\* number of updates a run of _telegram_loop receives
MaxUpdates == 6

\* backoff = 2.0
FirstBackoff == 2000
\* min(backoff * 1.8, 20.0): the cap
BackoffCap == 20000

\* NextBackoff without the cap
NextBackoff_Uncapped(b) == (b * 18) \div 10

\* backoff = min(backoff * 1.8, 20.0)
NextBackoff(b) ==
    IF (b * 18) \div 10 < BackoffCap THEN (b * 18) \div 10 ELSE BackoffCap

\* on_startup has started the thread: _supervisor is in time.sleep(20)
InitSupervise ==
    /\ EngineAt("supervise", <<>>)
    /\ goal = AttemptGoal
    /\ LogIdle
    /\ swarm = <<>>
    /\ SwarmIdle
    /\ RaceIdle
    /\ sup = [at |-> "start", backoff |-> 0, waited |-> 0, crashes |-> 0, offset |-> 0]
    /\ FpIdle
    /\ KillIdle
    /\ BookIdle

unsupervised ==
    <<engine, swarm, db, clock, pruned, now, peak, fetched, last, racing, fp, killed, book>>

\* time.sleep(20) is over, backoff = 2.0, and the while True calls _telegram_loop,
\* which sets offset = 0
SupervisorStarts ==
    /\ sup.at = "start"
    /\ sup' = [sup EXCEPT !.at = "running", !.backoff = FirstBackoff, !.offset = 0]
    /\ UNCHANGED unsupervised

\* one pass of the while True of _telegram_loop that handles an update
HandleUpdate ==
    /\ sup.at = "running"
    /\ sup.offset < MaxUpdates
    /\ sup' = [sup EXCEPT !.offset = @ + 1]
    /\ UNCHANGED unsupervised

\* a pass that raises an Exception: the except of the loop prints it and sleeps 5 s
LoopError ==
    /\ sup.at = "running"
    /\ sup' = [sup EXCEPT !.at = "retry"]
    /\ UNCHANGED unsupervised

\* time.sleep(5) is over: the while True goes on
LoopRetry ==
    /\ sup.at = "retry"
    /\ sup' = [sup EXCEPT !.at = "running"]
    /\ UNCHANGED unsupervised

\* an Exception leaves _telegram_loop (raised outside its try: by a print, or in
\* its except clause): the except of _supervisor prints it, sleeps backoff and
\* sets the next backoff
LoopCrash ==
    /\ sup.at \in {"running", "retry"}
    /\ sup.crashes < MaxCrashes
    /\ sup' = [sup EXCEPT !.at = "waiting", !.waited = sup.backoff,
                          !.backoff = NextBackoff(sup.backoff), !.crashes = @ + 1]
    /\ UNCHANGED unsupervised

\* time.sleep(backoff) is over: the while True calls _telegram_loop again
Revive ==
    /\ sup.at = "waiting"
    /\ sup' = [sup EXCEPT !.at = "running", !.offset = 0]
    /\ UNCHANGED unsupervised

NextSupervise ==
    \/ SupervisorStarts
    \/ HandleUpdate
    \/ LoopError
    \/ LoopRetry
    \/ LoopCrash
    \/ Revive

SpecSupervise == InitSupervise /\ [][NextSupervise]_vars

\* a sleep ends
SpecSuperviseFair ==
    /\ SpecSupervise
    /\ WF_vars(SupervisorStarts)
    /\ WF_vars(LoopRetry)
    /\ WF_vars(Revive)

(***************************************************************************)
(* The sessions of a run: engine, the opening of a session (lines 364-391)  *)
(* and its end, what happens between them being left out                    *)
(***************************************************************************)
InitSession ==
    /\ EngineAt("engine", <<>>)
    /\ goal = AttemptGoal
    /\ LogIdle
    /\ swarm = <<>>
    /\ SwarmIdle
    /\ RaceIdle
    /\ SupIdle
    /\ FpIdle
    /\ KillIdle
    /\ BookIdle

nosession == <<attempt, no_count, clicked, done, polls, eval_res, keylogger, selector,
               hint, events, swarm, cur, sess, past, goal, db, clock, pruned, now,
               peak, fetched, last, racing, sup, tries, killed,
               book>>

\* lines 364-391: the browser launched, the fingerprint drawn, the context made
\* and given the script
LaunchSession ==
    /\ pc = "engine"
    /\ bi < Len(Browsers)
    /\ bi' = bi + 1
    /\ open' = TRUE
    /\ \E v \in vendor_options, r \in renderer_options, h \in hwc_options :
          fp' = Append(fp, _fingerprint_script(v, r, h))
    /\ pc' = "session"
    /\ UNCHANGED <<exits, nosession>>

\* lines 543-561: the session closed and clicked returned to engine
SessionReturns ==
    /\ pc = "session"
    /\ open' = ~Closed(ExitEffects)
    /\ exits' = Append(exits, ExitRecord("return", ExitEffects))
    /\ \E returned \in BOOLEAN :
          pc' = IF EngineStops(returned) THEN "finished" ELSE "engine"
    /\ UNCHANGED <<bi, fp, nosession>>

\* an exception leaves run_dynamic_flow and engine
SessionRaises ==
    /\ pc = "session"
    /\ pc' = "aborted"
    /\ open' \in BOOLEAN
    /\ exits' = Append(exits, ExitRecord("raise", <<>>))
    /\ UNCHANGED <<bi, fp, nosession>>

\* the for of engine is used up
SessionsEnd ==
    /\ pc = "engine"
    /\ bi = Len(Browsers)
    /\ pc' = "finished"
    /\ UNCHANGED <<bi, open, exits, fp, nosession>>

NextSession ==
    \/ LaunchSession
    \/ SessionReturns
    \/ SessionRaises
    \/ SessionsEnd

SpecSession == InitSession /\ [][NextSession]_vars

(***************************************************************************)
(* Properties                                                              *)
(***************************************************************************)
\* an attempt of the session is in progress
InAttempt == pc \in {"guard", "interact", "evaluate"}

\* C1: within one session, after two consecutive Failure evaluations no further
\* attempt is made on that session: the session is rotated first.
C1_RotationBeforeThirdAttempt ==
    ~(open /\ sess.streak >= 2 /\ InAttempt)

\* C2: the escalation counter no_count is the number of consecutive Failure
\* evaluations of the session, and the browser is switched only after two
\* consecutive Failure evaluations.
C2_CounterCountsConsecutiveFailures ==
    /\ no_count = sess.streak
    /\ sess.escalated => sess.streak >= 2

\* C3: an evaluation that is Inconclusive (neither True nor False) leaves no_count
\* unchanged, and no_count grows only in an evaluation that is Failure (the value
\* False), by one; no other step changes it except the reset of a new session.
C3_InconclusiveLeavesCounter ==
    [][ /\ pc = "evaluate" =>
            /\ Classify(eval_res') = "Inconclusive" => no_count' = no_count
            /\ no_count' # no_count =>
                  Classify(eval_res') = "Failure" /\ no_count' = no_count + 1
        /\ pc # "evaluate" => no_count' = no_count \/ no_count' = 0 ]_vars

\* an attempt of the second session was evaluated Inconclusive and the counter is
\* as it was
C3_Witness ==
    /\ bi = 2
    /\ attempt = 2
    /\ pc = "loop"
    /\ cur.seen = "Inconclusive"
    /\ no_count = 0

\* C4: a success record of an attempt is written only when the evaluation of that
\* attempt judged Success.
C4_SuccessRecordOnlyAfterSuccess ==
    cur.recorded = "success" => cur.verdict = "Success"

\* the last event of the store is the success record of the attempt's locator
SuccessStored ==
    /\ events # <<>>
    /\ events[Len(events)] =
          Event(TargetUrl, AttemptGoal, selector, hint, "click", "success", "Start clicked")

\* the swarm store holds the attempt's locator
SwarmHolds ==
    \E i \in 1..Len(swarm) :
        /\ swarm[i].url = TargetUrl
        /\ swarm[i].goal = AttemptGoal
        /\ swarm[i].selector = selector

Hidden(st) ==
    st.kind = "style" /\ (st.v = "hidden" \/ st.d = "none" \/ st.o < 20)

\* C7: an attempt whose element is hidden, not displayed or of opacity below 0.2 is
\* classified Honeypot, and no activation strategy is called in it.
C7_HoneypotNeverActivated ==
    Hidden(cur.style) =>
        /\ cur.guard = "Honeypot"
        /\ cur.called = <<>>
        /\ ~clicked
        /\ pc \notin {"interact", "evaluate"}

\* an element of opacity 0.05 was classified, and the loop went on
C7_Witness ==
    /\ cur.style = Style("visible", "block", 5)
    /\ cur.guard = "Honeypot"
    /\ pc = "loop"

\* C8: a session that starts with the page recorded as hostile resolves no locator
\* and interacts with no element.
C8_HostileDomainRefused ==
    sess.hostileAtStart => attempt = 0 /\ ~InAttempt

\* C9: at most 2 sessions, one after the other in the order of the browsers, and
\* at most 3 attempts in each; a further session follows only a session that
\* returned False, and when the run has ended no session is open and either the
\* last session returned True or both sessions are used up.
C9_SessionAndAttemptCaps ==
    /\ bi <= 2
    /\ Len(past) <= 2
    /\ attempt <= 3
    /\ pc \in {"loop", "guard", "interact", "evaluate", "poll", "exit"} =>
          open /\ bi = Len(past) + 1
    /\ \A i \in 1..(Len(past) - 1) : ~past[i].returned
    /\ pc = "finished" =>
          /\ ~open
          /\ past = <<>> \/ past[Len(past)].returned \/ Len(past) = 2

\* the second session has used its three attempts without a click, after the
\* first returned False
C9_Witness ==
    /\ bi = 2
    /\ attempt = 3
    /\ pc = "exit"
    /\ ~clicked
    /\ Len(past) = 1
    /\ ~past[1].returned

\* C10: the poll loop makes at most 20 evaluations, and a session in which a poll
\* evaluation found the goal state returns True and is the last session of the run.
C10_PollGoalMeansSucceeded ==
    /\ polls <= 20
    /\ \A i \in 1..Len(past) :
          past[i].pollGoal => past[i].returned /\ i = Len(past) /\ bi = i

\* the effects eff hold a, and b after it
Precedes(eff, a, b) ==
    \E i, j \in 1..Len(eff) : i < j /\ eff[i] = a /\ eff[j] = b

C12_EveryExitClearsAndCloses ==
    \A i \in 1..Len(exits) :
        /\ Precedes(exits[i].effects, "storage.clear", "context.close")
        /\ Precedes(exits[i].effects, "clear_cookies", "context.close")
        /\ Precedes(exits[i].effects, "context.close", "browser.close")

\* the event at k goes on a run of failures that the event before it is in
FollowsInRun(g, k) ==
    k > 1 /\ g[k - 1].result = "failure" /\ SameRun(g[k - 1], g[k])

\* the event at s is the first of a maximal run of failures of one url, goal
\* and selector
IsRunHead(g, s) == g[s].result = "failure" /\ ~FollowsInRun(g, s)

\* the length of the maximal run whose first event is at s
RunLength(g, s) ==
    LET final == CHOOSE e \in s..Len(g) :
                     /\ \A k \in (s + 1)..e : SameRun(g[s], g[k])
                     /\ e = Len(g) \/ ~SameRun(g[s], g[e + 1])
    IN  final - s + 1

\* the event at k is in a run of more than 3: four events in a row around it
\* are failures of its url, goal and selector
InLongRun(g, k) ==
    /\ g[k].result = "failure"
    /\ \E w \in (k - 3)..k :
          w >= 1 /\ w + 3 <= Len(g) /\ \A h \in w..(w + 3) : SameRun(g[k], g[h])

\* the event at k is in a run of more than 3 and is not its first
Absorbed(g, k) == FollowsInRun(g, k) /\ InLongRun(g, k)

\* the place in the result of the event at s, the absorbed ones being gone
PlaceOf(g, s) == s - Cardinality({k \in 1..(s - 1) : Absorbed(g, k)})

\* C13: _compress_failures replaces each maximal run of N > 3 failures of one url,
\* goal and selector by exactly one failure, of that url, goal and selector, whose
\* note is "Repeated-Failure xN".
C13_LongRunBecomesOne ==
    pruned.called =>
        LET g == pruned.given
            a == pruned.after
        IN  /\ Len(a) = Len(g) - Cardinality({k \in 1..Len(g) : Absorbed(g, k)})
            /\ \A s \in 1..Len(g) :
                  (IsRunHead(g, s) /\ RunLength(g, s) > 3) =>
                      LET p == PlaceOf(g, s)
                      IN  /\ a[p].result = "failure"
                          /\ a[p].notes = <<"Repeated-Failure x", RunLength(g, s)>>
                          /\ a[p].url = g[s].url
                          /\ a[p].goal = g[s].goal
                          /\ a[p].selector = g[s].selector
                          /\ p = Len(a) \/ ~SameRun(a[p], a[p + 1])
                          /\ p = 1 \/ ~(a[p - 1].result = "failure" /\ SameRun(a[p - 1], a[p]))

\* five failures of one url, goal and selector were compressed into one event
\* with the note "Repeated-Failure x5"
C13_Witness ==
    /\ pruned.called
    /\ Len(pruned.before) = 5
    /\ \A k \in 1..5 : pruned.before[k].result = "failure" /\ SameRun(pruned.before[1], pruned.before[k])
    /\ Len(pruned.after) = 1
    /\ pruned.after[1].notes = <<"Repeated-Failure x", 5>>

\* C14: _compress_failures passes every event that is in no run of more than 3
\* failures (an event that is no failure, a failure in a run of 1 to 3, a failure
\* whose neighbours have another url, goal or selector) through unchanged, and the
\* events of the result stand in the order of the events they come from.
C14_OthersPassUnchanged ==
    pruned.called =>
        LET g == pruned.given
            a == pruned.after
        IN  /\ \A k \in 1..Len(g) :
                  ~InLongRun(g, k) =>
                      /\ PlaceOf(g, k) \in 1..Len(a)
                      /\ a[PlaceOf(g, k)] = g[k]
            /\ \A k \in 1..Len(g) :
                  (IsRunHead(g, k) /\ RunLength(g, k) = 3) =>
                      \A h \in 0..2 : a[PlaceOf(g, k) + h] = g[k + h]
            /\ \A k \in 1..(Len(g) - 1) :
                  (~Absorbed(g, k) /\ ~Absorbed(g, k + 1)) =>
                      PlaceOf(g, k + 1) = PlaceOf(g, k) + 1

\* a success, a run of exactly three failures and a failure of another selector
\* were compressed, and the five events came out as they were
C14_Witness ==
    /\ pruned.called
    /\ Len(pruned.before) = 5
    /\ pruned.before[1].result = "success"
    /\ IsRunHead(pruned.before, 2)
    /\ RunLength(pruned.before, 2) = 3
    /\ pruned.before[5].result = "failure"
    /\ pruned.before[5].selector # pruned.before[4].selector
    /\ pruned.after = pruned.before

\* C15: one _prune_memory of a log of N > 500 events, whose events after the 100
\* oldest hold no run of more than 3 failures of one url, goal and selector, leaves
\* N - 100 + 1 events: the N - 100 newest in their order, then one summary event.
C15_PruneLeavesNewestAndSummary ==
    LET b == pruned.before
        a == pruned.after
        c == SubSeq(b, 101, Len(b))
    IN  ( /\ pruned.called
          /\ Len(b) > 500
          /\ \A k \in 1..Len(c) : ~InLongRun(c, k) )
        => /\ Len(a) = Len(b) - 100 + 1
           /\ \A k \in 1..(Len(b) - 100) : a[k] = b[100 + k]
           /\ a[Len(a)].result = "summary"
           /\ a[Len(a)].action = "compress"
           /\ a[Len(a)].notes[2] = 100

\* a log of 600 events with no run of more than 3 failures was pruned to 501
C15_Witness ==
    /\ pruned.called
    /\ Len(pruned.before) = 600
    /\ \A k \in 1..600 : ~InLongRun(pruned.before, k)
    /\ Len(pruned.after) = 501
    /\ pruned.after[501].result = "summary"

\* C16: an append by record_event never leaves more than 500 events stored: when
\* the count would pass 500 the log is compacted with the append.
C16_AppendNeverLeavesOverThreshold ==
    [][Len(db') = Len(db) + 1 => Len(db') <= 500]_vars

\* C17 as stated: the summary event that _prune_memory emits bears the ts of the
\* oldest of the 100 events it summarizes.
C17_SummaryBearsOldestTs ==
    (pruned.called /\ Len(pruned.before) > 500) =>
        pruned.given[Len(pruned.given)].ts = pruned.before[1].ts

\* C17: the summary event that _prune_memory emits bears the time of the call of
\* _prune_memory, which is later than the ts of every event of the log, the
\* summarized and the carried alike; it is the last event handed on, and the
\* events handed on stand in the order of their ts.
C17_SummaryBearsCallTime ==
    (pruned.called /\ Len(pruned.before) > 500) =>
        LET g == pruned.given
            sm == g[Len(g)]
        IN  /\ sm.result = "summary"
            /\ sm.ts = pruned.at
            /\ \A k \in 1..Len(pruned.before) : pruned.before[k].ts < sm.ts
            /\ \A k \in 1..(Len(g) - 1) : g[k].ts <= g[k + 1].ts
            /\ pruned.after[Len(pruned.after)] = sm

\* a log of 600 events recorded at times 1 to 600 was pruned at time 601, and the
\* summary bears 601
C17_Witness ==
    /\ pruned.called
    /\ Len(pruned.before) = 600
    /\ pruned.before[1].ts = 1
    /\ pruned.at = 601
    /\ pruned.after[Len(pruned.after)].result = "summary"
    /\ pruned.after[Len(pruned.after)].ts = 601

\* C18: after any calls of swarm_publish the store holds at most one record of each
\* (goal, url, selector); a publish of a stored triple adds no record and raises the
\* count of its record by one, so two publishes of a triple on an empty store leave
\* one record, whose success_count went from 1 to 2.
C18_OneRecordPerTriple ==
    /\ [](\A i, j \in 1..Len(swarm) : KeyOf(swarm[i]) = KeyOf(swarm[j]) => i = j)
    /\ [][ (last'.op = "publish" /\ now' = now + 1 /\ Matches(swarm, last'.key) # {})
             => /\ Cardinality(Matches(swarm', last'.key)) = 1
                /\ CountOf(swarm', last'.key) = CountOf(swarm, last'.key) + 1
                /\ Len(swarm') <= Len(swarm) ]_vars
    /\ [][ (swarm = <<>> /\ last'.op = "publish" /\ now' = now + 1)
             => /\ Len(swarm') = 1
                /\ KeyOf(swarm'[1]) = last'.key
                /\ swarm'[1].success_count = last'.given ]_vars

\* one triple was published twice on the empty store, with no count given: the
\* store holds one record, of that triple, with success_count 2
C18_Witness ==
    /\ now = 2
    /\ last.op = "publish"
    /\ last.given = 1
    /\ Len(swarm) = 1
    /\ KeyOf(swarm[1]) = last.key
    /\ swarm[1].success_count = 2
    /\ peak[last.key] = 2

\* C19 as stated: the success_count stored for a triple is never lower than a
\* success_count stored for it earlier, whatever publishes, cleanings and fetches
\* were made in between.
C19_CountNeverBelowEarlier ==
    \A k \in SwarmKeys : Matches(swarm, k) # {} => CountOf(swarm, k) >= peak[k]

\* C19: as long as the record of a triple stays in the store its success_count
\* never decreases: a publish of the triple raises it by one, a publish of another
\* triple and a fetch leave it as it is. The cleaning, made by a publish when the
\* file is larger than 2,000,000 bytes, removes the records not published for 30
\* days; a triple published after its record was removed starts again from the
\* count given, and between two removals its count is at most its peak.
C19_CountKeptWhileStored ==
    /\ [][ \A k \in SwarmKeys :
              (Matches(swarm, k) # {} /\ Matches(swarm', k) # {})
                  => /\ CountOf(swarm', k) >= CountOf(swarm, k)
                     /\ (last'.op = "publish" /\ last'.key = k /\ now' = now + 1)
                            => CountOf(swarm', k) = CountOf(swarm, k) + 1
                     /\ ~(last'.op = "publish" /\ last'.key = k /\ now' = now + 1)
                            => CountOf(swarm', k) = CountOf(swarm, k) ]_vars
    /\ [][ \A k \in SwarmKeys :
              (Matches(swarm, k) # {} /\ Matches(swarm', k) = {})
                  => \E i \in Matches(swarm, k) : ~Kept(swarm[i], now) ]_vars
    /\ [](\A k \in SwarmKeys : CountOf(swarm, k) <= peak[k])

\* a triple whose count had reached 3 was removed by a cleaning after 30 days and
\* published again: its record is stored with count 1
C19_Witness ==
    \E k \in SwarmKeys :
        /\ now > Retention
        /\ peak[k] = 3
        /\ last.op = "publish"
        /\ last.key = k
        /\ CountOf(swarm, k) = 1

AskedSet == {cur.asked[i] : i \in 1..Len(cur.asked)}

\* C21: a resolution that finds no locator in the event store and for whose goal
\* the swarm store holds a record of the page or of its domain takes the selector
\* of that record, and does not ask the proposer.
C21_SwarmBeforeProposer ==
    ( /\ pc \in {"resolved", "abandoned"}
      /\ ~cur.memFound
      /\ swarm_fetch(swarm, goal, TargetUrl) # NoRecord )
    => /\ "propose_selector" \notin AskedSet
       /\ selector = swarm_fetch(swarm, goal, TargetUrl).rec.selector

\* the success events stored for the page and the goal of the resolution
Successes ==
    {i \in 1..Len(events) :
        /\ events[i].url = TargetUrl
        /\ events[i].goal = goal
        /\ events[i].result = "success"}

\* the number of successes of the locator of the event at i, and its last use
SuccessCount(i) ==
    Cardinality({j \in Successes : events[j].selector = events[i].selector})

LastUse(i) ==
    CHOOSE k \in Successes :
        /\ events[k].selector = events[i].selector
        /\ \A j \in Successes : events[j].selector = events[i].selector => j <= k

\* C22 as stated: the lookup returns the locator that succeeded most often for
\* the page and the goal, the most recent use deciding between equal counts.
C22_MostSuccessfulWins ==
    (pc \in {"resolved", "abandoned"} /\ Successes # {}) =>
        \E w \in Successes :
            /\ \A j \in Successes :
                  \/ SuccessCount(j) < SuccessCount(w)
                  \/ SuccessCount(j) = SuccessCount(w) /\ LastUse(j) <= LastUse(w)
            /\ cur.mem.found
            /\ cur.mem.selector = events[w].selector

\* C22: the lookup returns the selector and the hint of the most recent success
\* event stored for the page and the goal, however often any locator succeeded,
\* and nothing when no success is stored for them.
C22_MostRecentWins ==
    pc \in {"resolved", "abandoned"} =>
        IF Successes = {} THEN cur.mem = NotFound
        ELSE LET n == CHOOSE k \in Successes : \A j \in Successes : j <= k
             IN  /\ cur.mem.found
                 /\ cur.mem.selector = events[n].selector
                 /\ cur.mem.hint = events[n].hint
                 /\ cur.asked = <<"consult_selector">>

\* a locator succeeded twice and another once after it: the lookup returned the
\* other
C22_Witness ==
    /\ pc = "resolved"
    /\ Len(events) = 3
    /\ Successes = {1, 2, 3}
    /\ events[1].selector = events[2].selector
    /\ events[3].selector # events[1].selector
    /\ cur.mem.selector = events[3].selector

\* the order of the strategies of the ladder
Ladder == <<"direct", "dispatch", "script", "force">>

\* C23: with a hint that names no strategy, an attempt that reaches the activation
\* calls direct click, dispatched click event, script click and forced click in
\* that order and stops at the first that raises no error: each strategy called
\* before the last raised, the last raised only if no strategy is left, and the
\* attempt clicked exactly when the last did not raise. Direct and dispatch
\* raising and script not raising makes 3 calls, the forced click not among them.
C23_LadderStopsAtFirstNoError ==
    (cur.called # <<>> /\ hint \notin {<<"JS_CLICK">>, <<"FORCE_CLICK">>}) =>
        LET n == Len(cur.called)
        IN  /\ cur.called = SubSeq(Ladder, 1, n)
            /\ \A i \in 1..(n - 1) : cur.called[i] \in cur.raised
            /\ cur.called[n] \in cur.raised => n = 4
            /\ pc = "evaluate" => (clicked <=> cur.called[n] \notin cur.raised)
            /\ cur.raised = {"direct", "dispatch"} =>
                   (n = 3 /\ cur.called[3] = "script")

\* an attempt with no hint whose direct click and dispatch raised and whose script
\* click did not: three strategies called, and the attempt clicked
C23_Witness ==
    /\ pc = "evaluate"
    /\ hint = <<>>
    /\ cur.raised = {"direct", "dispatch"}
    /\ cur.called = <<"direct", "dispatch", "script">>
    /\ clicked

\* C24: an attempt whose hint names a strategy calls that strategy and no other:
\* the script click for JS_CLICK, the forced click for FORCE_CLICK.
C24_NamedStrategyOnly ==
    cur.called # <<>> =>
        /\ hint = <<"JS_CLICK">> => cur.called = <<"script">>
        /\ hint = <<"FORCE_CLICK">> => cur.called = <<"force">>

\* the event written as the k-th is in the log, or among the 100 oldest that a
\* summary in the log stands for, or a failure of a run that a collapsed event
\* in the log stands for
Represented(k) ==
    \/ \E i \in 1..Len(db) : db[i] = written[k]
    \/ k <= 100 /\ \E i \in 1..Len(db) : db[i].result = "summary"
    \/ /\ written[k].result = "failure"
       /\ \E i \in 1..Len(db) :
             /\ db[i].notes[1] = "Repeated-Failure x"
             /\ SameRun(db[i], written[k])
             /\ db[i].ts <= written[k].ts

\* C25: whatever records events beside _prune_memory_now, every event whose
\* record_event completed is afterwards in the log or stood for by the summary or
\* by a collapsed failure event.
C25_NoAppendLost ==
    \A k \in 1..Len(written) : Represented(k)

\* the number of calls of swarm_publish completed for the triple k
Published(k) ==
    LET of(n) == Cardinality({i \in 1..Len(pub[n].done) : pub[n].done[i] = k})
    IN  of("n1") + of("n2")

\* C26: whatever nodes run swarm_publish beside one another, no publish is lost:
\* a triple published is in the store, and its success_count is at least the
\* number of publishes of it that completed, so that two publishes of one triple
\* raise the count by 2 and publishes of two triples leave two records.
C26_NoPublishLost ==
    \A k \in SwarmKeys :
        Published(k) > 0 =>
            /\ Cardinality(Matches(swarm, k)) = 1
            /\ CountOf(swarm, k) >= Published(k)

\* C27: after each exception that leaves the supervised loop the supervisor waits
\* at most 20 s and calls the loop again: the thread never ends, no wait is longer
\* than 20 s, and a supervisor that waits leads to the loop running, after any
\* number of crashes.
C27_SupervisorRevives ==
    /\ [](sup.at \in {"start", "running", "retry", "waiting"})
    /\ [](sup.waited <= 20000)
    /\ [](sup.at = "waiting" => sup.waited > 0)
    /\ \A n \in 1..MaxCrashes :
          (sup.at = "waiting" /\ sup.crashes = n) ~> (sup.at = "running" /\ sup.crashes = n)

\* the loop runs again after its sixth crash, the last wait having been 20 s
C27_Witness ==
    /\ sup.at = "running"
    /\ sup.crashes = 6
    /\ sup.waited = 20000

\* the number of sessions of the run that were closed
ClosedSessions == Cardinality({i \in 1..Len(exits) : Closed(exits[i].effects)})

\* C29: the run has at most one session that was opened and not closed, a session
\* is open only between its opening and its exit, and engine opens a session only
\* when every session opened before was closed. (The switch of browser after
\* repeated failures hands over to no next session: it ends engine.)
C29_OneSessionAtATime ==
    /\ [](bi - ClosedSessions \in {0, 1})
    /\ [](open => bi - ClosedSessions = 1)
    /\ [](pc \in {"engine", "finished"} => ~open /\ ClosedSessions = bi)
    /\ [][bi' = bi + 1 => (~open /\ ClosedSessions = bi /\ open')]_vars

\* the second session is open, the first having been closed before it was opened
C29_Witness ==
    /\ bi = 2
    /\ open
    /\ pc = "loop"
    /\ ClosedSessions = 1
    /\ Len(exits) = 1

\* C28: each session opened has one fingerprint, drawn when it is opened, whose
\* vendor, renderer and hardware concurrency are among the candidates; no
\* fingerprint is drawn at another time, and none is changed once drawn.
C28_FingerprintPerSession ==
    /\ [](Len(fp) = bi)
    /\ [](\A i \in 1..Len(fp) :
             /\ fp[i].vendor \in {"NVIDIA Corporation", "Intel Inc.", "Apple Inc."}
             /\ fp[i].renderer \in
                    {"NVIDIA GeForce RTX 3080", "Intel Iris OpenGL Engine", "Apple M2"}
             /\ fp[i].hardwareConcurrency \in {4, 8, 16})
    /\ [][ /\ Len(fp') >= Len(fp)
           /\ \A i \in 1..Len(fp) : fp'[i] = fp[i]
           /\ Len(fp') > Len(fp) => (bi' = bi + 1 /\ Len(fp') = Len(fp) + 1 /\ open') ]_vars

\* the second session is open, with a fingerprint that is not that of the first
C28_Witness ==
    /\ bi = 2
    /\ open
    /\ Len(fp) = 2
    /\ fp[1].vendor = "NVIDIA Corporation"
    /\ fp[2].vendor = "Apple Inc."
    /\ fp[2].hardwareConcurrency = 16

\* C30: every step that evaluates an attempt whose locator was resolved and
\* activated, whether or not the activation clicked, appends exactly one event
\* to the log of the run.
C30_EveryEvaluatedAttemptRecorded ==
    [][ (pc = "evaluate" /\ pc' # "evaluate") => Len(events') = Len(events) + 1 ]_vars

\* the summary that a pruning past the threshold appended
DigestNote == pruned.after[Len(pruned.after)].notes

\* the 100 oldest events of the log that was pruned
Hundred == SubSeq(pruned.before, 1, 100)

HundredGoals == {StripGoal(Hundred[i].goal) : i \in 1..100} \ {""}
HundredDomains == {Domain(Hundred[i].url) : i \in 1..100} \ {""}
GoalCount(g) == Cardinality({i \in 1..100 : StripGoal(Hundred[i].goal) = g})
DomainCount(d) == Cardinality({i \in 1..100 : Domain(Hundred[i].url) = d})

\* listed names n of the keys with their counts, the most frequent ones, none twice
ListsMostFrequent(listed, keys, n, count(_)) ==
    /\ Len(listed) = IF Cardinality(keys) < n THEN Cardinality(keys) ELSE n
    /\ \A r \in 1..Len(listed) :
          /\ listed[r][1] \in keys
          /\ listed[r][2] = count(listed[r][1])
          /\ \A q \in 1..Len(listed) : q # r => listed[q][1] # listed[r][1]
          /\ \A k \in keys :
                count(k) > listed[r][2] => \E q \in 1..Len(listed) : listed[q][1] = k

\* C31: the summary of a pruning past the threshold says it compressed 100
\* events, gives the numbers of success and of failure events among the 100
\* oldest events of the log, and lists the 3 most frequent goals and the 2 most
\* frequent domains of those events with their counts.
C31_SummaryOfTheHundredOldest ==
    (pruned.called /\ Len(pruned.before) > 500) =>
        /\ pruned.after[Len(pruned.after)].result = "summary"
        /\ DigestNote[2] = 100
        /\ DigestNote[4] = Cardinality({i \in 1..100 : Hundred[i].result = "success"})
        /\ DigestNote[6] = Cardinality({i \in 1..100 : Hundred[i].result = "failure"})
        /\ ListsMostFrequent(DigestNote[8], HundredGoals, 3, GoalCount)
        /\ ListsMostFrequent(DigestNote[10], HundredDomains, 2, DomainCount)

\* a log of 501 events with more than three goals and more than two domains
\* among its 100 oldest was pruned, and the goal left out was not the rarest
\* by chance of order: the counts of the four goals differ
C31_Witness ==
    /\ pruned.called
    /\ Len(pruned.before) = 501
    /\ Cardinality(HundredGoals) = 4
    /\ Cardinality(HundredDomains) = 3
    /\ Len(DigestNote[8]) = 3
    /\ Len(DigestNote[10]) = 2
    /\ DigestNote[8][1] = <<SubmitGoal, 40>>
    /\ pruned.before[501].goal = Problem

\* record i of the store has the goal asked for, a selector, and the domain of
\* the url asked for
Eligible(i) ==
    /\ swarm[i].goal = last.key[1]
    /\ swarm[i].selector # <<>>
    /\ Domain(swarm[i].url) = Domain(last.key[2])

\* record i is eligible and is of the very url asked for
OnTheUrl(i) == Eligible(i) /\ swarm[i].url = last.key[2]

\* no record of idx has a higher success_count than record i
Highest(i, idx) == \A j \in idx : swarm[j].success_count <= swarm[i].success_count

\* C32: swarm_fetch(goal, url) returns a record of the store that has the goal,
\* a selector and the domain of url; when records of the very url are among
\* these it returns one of them with the highest success_count of them, else one
\* with the highest success_count of all of these; it returns None exactly when
\* the store has no such record.
C32_FetchReturnsBestEligible ==
    last.op = "lookup" =>
        LET all == {i \in 1..Len(swarm) : Eligible(i)}
            onUrl == {i \in 1..Len(swarm) : OnTheUrl(i)}
        IN  /\ fetched.found <=> all # {}
            /\ fetched.found =>
                  \E i \in all :
                      /\ swarm[i] = fetched.rec
                      /\ IF onUrl # {} THEN i \in onUrl /\ Highest(i, onUrl)
                         ELSE Highest(i, all)

\* a lookup returned a record of another page of the site, the third of the
\* store, passing over a record of the url asked for that has no selector and
\* a record of the same other page with a lower count
C32_Witness ==
    /\ last.op = "lookup"
    /\ last.key = <<AttemptGoal, TargetUrl>>
    /\ Len(swarm) = 3
    /\ swarm[1].url = TargetUrl /\ swarm[1].goal = AttemptGoal /\ swarm[1].selector = <<>>
    /\ swarm[2].url = OtherUrl /\ swarm[2].goal = AttemptGoal
    /\ swarm[2].selector # <<>> /\ swarm[2].success_count = 1
    /\ swarm[3].success_count = 3
    /\ fetched.found
    /\ fetched.rec = swarm[3]
    /\ swarm[3].url = OtherUrl

\* engine has returned or an exception has left it
Terminated == pc \in {"finished", "aborted", "crashed"}

\* C33: a run of engine ends, after at most 2 sessions, each of at most 3
\* attempts and at most 20 evaluations of the poll loop, and _ddgs_brain calls
\* the search at most 5 times for a proposal.
C33_RunTerminates ==
    /\ [](bi <= 2 /\ attempt <= 3 /\ polls <= 20 /\ tries <= 5)
    /\ <>Terminated

\* the second session has made its third attempt, for which the search was
\* called five times and raised each time, after a first session that has
\* returned
C33_Witness ==
    /\ bi = 2
    /\ attempt = 3
    /\ tries = 5
    /\ cur.proposal = BrainDown
    /\ Len(exits) = 1
    /\ exits[1].how = "return"

\* the number of failures that an event of the log says it stands for: the N of
\* its note "Repeated-Failure xN", 1 for any other failure
StandsFor(ev) ==
    IF Len(ev.notes) = 2 /\ ev.notes[1] = "Repeated-Failure x" THEN ev.notes[2] ELSE 1

RECURSIVE FailuresSaid(_)
FailuresSaid(evs) ==
    IF evs = <<>> THEN 0
    ELSE (IF Head(evs).result = "failure" THEN StandsFor(Head(evs)) ELSE 0)
         + FailuresSaid(Tail(evs))

\* C34: while prunings and recordings alternate on a log below the threshold,
\* the failures that the events of the log stand for, each collapsed event for
\* the N of its note, are as many as the failures that were recorded.
C34_CollapsedCountsAddUp ==
    FailuresSaid(db) = Cardinality({i \in 1..Len(written) : written[i].result = "failure"})

\* C35: a pruning of a log past the threshold takes away only the 100 oldest
\* events and the events that are in runs of more than 3 failures; every other
\* event that was stored before it, however many were stored, is stored after it.
C35_OnlySummarizedAndMergedRemoved ==
    (pruned.called /\ Len(pruned.before) > 500) =>
        LET b == pruned.before
            left == {pruned.after[j] : j \in 1..Len(pruned.after)}
        IN  \A k \in 101..Len(b) : ~InLongRun(b, k) => b[k] \in left

\* C36: a locator that consult_selector returns for an url and a goal before a
\* pruning of the log is answered by a locator for that url and goal after it.
C36_LearnedLocatorSurvives ==
    pruned.called =>
        \A u \in {TargetUrl, ShopUrl, BankUrl}, g \in {AttemptGoal, PollGoal, SubmitGoal, Problem} :
            consult_selector(pruned.before, u, g).found
                => consult_selector(pruned.after, u, g).found

\* C37: an attempt whose activation was made had a style lookup that returned
\* the style of an element and found it visible: visibility not hidden, display
\* not none, opacity at least 0.2.
C37_GuardFailsClosed ==
    (pc = "evaluate" /\ cur.called # <<>>) =>
        /\ cur.style.kind = "style"
        /\ cur.style.v # "hidden"
        /\ cur.style.d # "none"
        /\ cur.style.o >= 20

\* C38: in a session whose kill switch has fired, no step starts a further
\* attempt or evaluates the poll loop, and no success event is recorded.
C38_KillStopsRun ==
    [][ (killed.value /\ killed.bi = bi /\ bi' = bi) =>
            /\ attempt' <= attempt
            /\ polls' <= polls
            /\ \A i \in (Len(events) + 1)..Len(events') : events'[i].result # "success" ]_vars

\* C39: a node operation (register_node, heartbeat_from, ping_swarm) that runs
\* beside swarm_publish erases no learned locator: every triple that has a record
\* in the store before the node operation saves has one after it.
C39_NodeSaveKeepsRecords ==
    [][(book.at = "loaded" /\ book'.at = "idle") =>
          \A k \in SwarmKeys : Matches(swarm, k) # {} => Matches(swarm', k) # {}]_vars

\* C40: packing the remembered (selector, hint) as "selector || hint" and parsing
\* it with _parse_hint is a round trip: the attempt gets the remembered selector
\* and the upper-cased remembered hint, and an empty hint with a selector that was
\* remembered with an empty hint.
C40_PackParseRoundTrip ==
    (pc = "resolved" /\ cur.memFound) =>
        /\ selector = cur.mem.selector
        /\ hint = UpperSeq(cur.mem.hint)

====
